---- MODULE Spec2Model ----
(***************************************************************************)
(* A model of the EPAC workflow engine (neurospin/pylearn-epac):           *)
(*   - StoreMem, the in-memory store           (epac/stores.py)            *)
(*   - StoreFs, the file-system store          (epac/stores.py)            *)
(*   - extract_values / replace_values         (epac/stores.py)            *)
(*   - Methods / Grid collision resolution     (epac/workflow/splitters.py)*)
(* Each component has its own variables and its own specification; the     *)
(* variables of the other components are held at their initial value.      *)
(***************************************************************************)
EXTENDS Integers, Sequences, FiniteSets, TLC

VARIABLES
    mem_dict,   \* StoreMem.dict: key -> stored value (a partial function)
    mem_prev,   \* StoreMem.dict as it was before the last save
    mem_log,    \* the save calls made so far, oldest first
    mem_ret,    \* what the last StoreMem.load returned
    fs_files,   \* StoreFs: the files under the store root, path -> content
    fs_dirs,    \* StoreFs: the directories under the store root
    fs_last,    \* the last StoreFs.save call
    fs_ret,     \* what the last StoreFs.load returned
    xv_pc,      \* epac_joblib: "idle", "new", "dumped", "dump_failed", "loaded", "load_failed"
    xv_orig,    \* the object as the caller built it
    xv_obj,     \* the caller's object as it is now
    xv_file,    \* what dump wrote: the handle map and the pickled object
    xv_out,     \* what load returned
    mt_pc,      \* Methods/Grid: "idle", "new", "built", "failed"
    mt_nodes,   \* the nodes given to the constructor
    mt_tree,    \* the tree the constructor returned
    mt_iters,   \* how many times the collision loop ran
    sl_pc,      \* CV/Perms and their Slicer: "idle", "run" or "called"
    sl_cv,      \* the CV or Perms node: _sclices is the slice plan
    sl_slicer,  \* the one RowSlicer of the node
    sl_ret,     \* the last call made and what it returned
    sl_it,      \* the position an iterator over the children yields next
    es_pc,      \* estimator wrappers: "idle" or "run"
    es_node,    \* the LeafEstimator or InternalEstimator node
    es_est,     \* the wrapped estimator: what it was fitted on, its calls
    es_ret,     \* the last transform of the node: the flow given and returned
    bs_pc,      \* best search then refit: "idle", "run", "predicted", "TypeError"
    bs_node,    \* the CVBestSearchRefit node: its children and its saved state
    bs_stores,  \* every StoreMem created by the node, in order of creation
    bs_ret,     \* the last fit: the scores, the result set, the choice made
    cw_pc,      \* concurrent writers: the step each worker is at
    cw_call,    \* the save call of each worker
    cw_files,   \* the files under the store root the workers share
    cw_dirs     \* the directories under that root

mem_vars == <<mem_dict, mem_prev, mem_log, mem_ret>>

fs_vars == <<fs_files, fs_dirs, fs_last, fs_ret>>

xv_vars == <<xv_pc, xv_orig, xv_obj, xv_file, xv_out>>

mt_vars == <<mt_pc, mt_nodes, mt_tree, mt_iters>>

sl_vars == <<sl_pc, sl_cv, sl_slicer, sl_ret, sl_it>>

es_vars == <<es_pc, es_node, es_est, es_ret>>

bs_vars == <<bs_pc, bs_node, bs_stores, bs_ret>>

cw_vars == <<cw_pc, cw_call, cw_files, cw_dirs>>

vars == <<mem_vars, fs_vars, xv_vars, mt_vars, sl_vars, es_vars, bs_vars, cw_vars>>

\* The variables of the other components, for each component.
not_mem_vars == <<fs_vars, xv_vars, mt_vars, sl_vars, es_vars, bs_vars, cw_vars>>

not_fs_vars == <<mem_vars, xv_vars, mt_vars, sl_vars, es_vars, bs_vars, cw_vars>>

not_xv_vars == <<mem_vars, fs_vars, mt_vars, sl_vars, es_vars, bs_vars, cw_vars>>

not_mt_vars == <<mem_vars, fs_vars, xv_vars, sl_vars, es_vars, bs_vars, cw_vars>>

not_sl_vars == <<mem_vars, fs_vars, xv_vars, mt_vars, es_vars, bs_vars, cw_vars>>

not_es_vars == <<mem_vars, fs_vars, xv_vars, mt_vars, sl_vars, bs_vars, cw_vars>>

not_bs_vars == <<mem_vars, fs_vars, xv_vars, mt_vars, sl_vars, es_vars, cw_vars>>

not_cw_vars == <<mem_vars, fs_vars, xv_vars, mt_vars, sl_vars, es_vars, bs_vars>>

(***************************************************************************)
(* Python values.  Every value is a record of the same shape, so that two  *)
(* values of different Python types can be compared:                       *)
(*   t = "int"   an integer n                                              *)
(*   t = "map"   a dict m (a function from sub-keys to values)             *)
(*   t = "list"  a list l (a sequence of values)                           *)
(*   t = "none"  None                                                      *)
(*   t = "str"   a string, named by the number n                           *)
(*   t = "tuple" a tuple l                                                 *)
(*   t = "set"   a set (the model needs it only as a value json cannot     *)
(*               encode)                                                   *)
(*   t = "big"   a numpy array with more than conf.MEMM_THRESHOLD          *)
(*               elements, named by the number n                           *)
(*   t = "arr"   a numpy array with fewer elements                         *)
(*   t = "obj"   a class instance whose public data attributes are m       *)
(*   t = "tag"   a TagObject whose hash_id is n                            *)
(***************************************************************************)
EmptyMap == [s \in {} |-> 0]

IntV(i) == [t |-> "int", n |-> i, m |-> EmptyMap, l |-> <<>>]

MapV(f) == [t |-> "map", n |-> 0, m |-> f, l |-> <<>>]

ListV(s) == [t |-> "list", n |-> 0, m |-> EmptyMap, l |-> s]

NoneV == [t |-> "none", n |-> 0, m |-> EmptyMap, l |-> <<>>]

StrV(i) == [t |-> "str", n |-> i, m |-> EmptyMap, l |-> <<>>]

TupleV(s) == [t |-> "tuple", n |-> 0, m |-> EmptyMap, l |-> s]

SetV == [t |-> "set", n |-> 0, m |-> EmptyMap, l |-> <<>>]

BigV(i) == [t |-> "big", n |-> i, m |-> EmptyMap, l |-> <<>>]

ArrV == [t |-> "arr", n |-> 0, m |-> EmptyMap, l |-> <<>>]

ObjV(f) == [t |-> "obj", n |-> 0, m |-> f, l |-> <<>>]

TagV(i) == [t |-> "tag", n |-> i, m |-> EmptyMap, l |-> <<>>]

IsMap(v) == v.t = "map"

IsList(v) == v.t = "list"

\* The partial function f restricted to the domain S.
Restrict(f, S) == [s \in (DOMAIN f) \cap S |-> f[s]]

\* dict.update: every entry of g is written over f, entry by entry.
DictUpdate(f, g) ==
    [s \in (DOMAIN f) \cup (DOMAIN g) |-> IF s \in DOMAIN g THEN g[s] ELSE f[s]]

(***************************************************************************)
(* StoreMem (epac/stores.py, class StoreMem).                              *)
(* Objects are passed by value: every save is given a freshly built        *)
(* object, so no two keys share one Python object.                         *)
(***************************************************************************)
MemKeys == {"k1", "k2"}

SubKeys == {"a", "b"}

Scalars == {IntV(1), IntV(2)}

\* dicts whose values are integers: {}, {a:1}, {a:1, b:2}, ...
FlatMaps == UNION {[S -> Scalars] : S \in SUBSET SubKeys}

\* dicts holding one nested dict: {a:{a:1}}, {a:{b:1}}, {b:{a:1}}, {b:{b:1}}
NestedMaps ==
    {[s \in {k} |-> MapV([z \in {j} |-> IntV(1)])] : k \in SubKeys, j \in SubKeys}

\* The objects a caller passes to save.
MemObjs == Scalars \cup {MapV(f) : f \in FlatMaps \cup NestedMaps} \cup {ListV(<<>>)}

\* How many save calls one run makes.
MaxCalls == 2

MemInit ==
    /\ mem_dict = EmptyMap
    /\ mem_prev = EmptyMap
    /\ mem_log = <<>>
    /\ mem_ret = [key |-> "", val |-> NoneV, done |-> FALSE]

\* StoreMem.save without its merge branch: the saved object always replaces
\* the stored one.
StoreMem_save_replace(dict, key, obj, merge) ==
    [dict |-> [k \in (DOMAIN dict) \cup {key} |-> IF k = key THEN obj ELSE dict[k]],
     res |-> "ok"]

\* StoreMem.save(key, obj, merge): the dict after the call and how the call
\* ended.  v.update(obj) raises TypeError when obj is not a mapping (an empty
\* list is an empty sequence of pairs and updates nothing).
StoreMem_save(dict, key, obj, merge) ==
    IF ~merge \/ key \notin DOMAIN dict
    THEN [dict |-> [k \in (DOMAIN dict) \cup {key} |->
                       IF k = key THEN obj ELSE dict[k]],
          res |-> "ok"]
    ELSE LET v == dict[key] IN
         IF IsMap(v)
         THEN IF IsMap(obj)
              THEN [dict |-> [dict EXCEPT ![key] = MapV(DictUpdate(v.m, obj.m))],
                    res |-> "ok"]
              ELSE IF IsList(obj) /\ obj.l = <<>>
                   THEN [dict |-> dict, res |-> "ok"]
                   ELSE [dict |-> dict, res |-> "TypeError"]
         ELSE IF IsList(v)
              THEN [dict |-> [dict EXCEPT ![key] = ListV(Append(v.l, obj))],
                    res |-> "ok"]
              ELSE [dict |-> dict, res |-> "ok"]

\* StoreMem.load(key): the stored value, None for a missing key.
StoreMem_load(dict, key) ==
    IF key \in DOMAIN dict THEN dict[key] ELSE NoneV

\* A caller saves obj under key.
MemSave(key, obj, merge) ==
    /\ Len(mem_log) < MaxCalls
    /\ LET r == StoreMem_save(mem_dict, key, obj, merge) IN
         /\ mem_dict' = r.dict
         /\ mem_prev' = mem_dict
         /\ mem_log' = Append(mem_log, [key |-> key, obj |-> obj,
                                        merge |-> merge, res |-> r.res])
    /\ mem_ret' = [key |-> "", val |-> NoneV, done |-> FALSE]

\* A caller loads key.
MemLoad(key) ==
    /\ mem_ret' = [key |-> key, val |-> StoreMem_load(mem_dict, key), done |-> TRUE]
    /\ UNCHANGED <<mem_dict, mem_prev, mem_log>>

(***************************************************************************)
(* StoreFs (epac/stores.py, class StoreFs).                                *)
(* A key is the sequence of its path components: <<"a", "x">> is the key   *)
(* "a/x", saved in the file a/x.json or a/x.pkl under the store root.      *)
(* The saved objects are built-in values without public data attributes    *)
(* (strings, tuples, sets): extract_values and replace_values leave such   *)
(* an object as it is, so what epac_joblib.load returns for a file written *)
(* by epac_joblib.dump is the object dumped.                               *)
(***************************************************************************)
FsKeys == {<<"a", "x">>, <<"a", "y">>, <<"b", "x">>}

\* The non-root prefixes of the keys.
FsPrefixes == {<<"a">>, <<"b">>}

\* A string and a tuple (json encodes both) and a set (json encodes none).
FsObjs == {StrV(1), TupleV(<<StrV(1)>>), SetV}

FsProtocols == {"txt", "bin"}

\* conf.STORE_FS_JSON_SUFFIX and conf.STORE_FS_PICKLE_SUFFIX
JsonSuffix == "json"

PickleSuffix == "pkl"

\* os.path.dirname of a key
Dirname(key) == SubSeq(key, 1, Len(key) - 1)

\* path + suffix
FsFile(key, suffix) == [key |-> key, ext |-> suffix]

FsNoCall == [key |-> <<>>, obj |-> NoneV, protocol |-> ""]

FsNoRet == [key |-> <<>>, done |-> FALSE, res |-> "", val |-> NoneV]

\* StoreFs.__init__ on a new directory: an empty store root.
FsInit ==
    /\ fs_files = EmptyMap
    /\ fs_dirs = {}
    /\ fs_last = FsNoCall
    /\ fs_ret = FsNoRet

\* obj_to_dict: lists and tuples both become lists, dicts are converted entry
\* by entry, every other value is passed on as it is.
RECURSIVE obj_to_dict(_)
obj_to_dict(v) ==
    CASE v.t = "map" -> MapV([s \in DOMAIN v.m |-> obj_to_dict(v.m[s])])
      [] v.t \in {"list", "tuple"} -> ListV([i \in DOMAIN v.l |-> obj_to_dict(v.l[i])])
      [] OTHER -> v

\* json.dump raises TypeError on a value that holds a set.
RECURSIVE JsonRaises(_)
JsonRaises(d) ==
    CASE d.t = "map" -> \E s \in DOMAIN d.m : JsonRaises(d.m[s])
      [] d.t \in {"list", "tuple"} -> \E i \in DOMAIN d.l : JsonRaises(d.l[i])
      [] OTHER -> d.t = "set"

\* dict_to_obj: dicts and lists are converted entry by entry.
RECURSIVE dict_to_obj(_)
dict_to_obj(d) ==
    CASE d.t = "map" -> MapV([s \in DOMAIN d.m |-> dict_to_obj(d.m[s])])
      [] d.t \in {"list", "tuple"} -> ListV([i \in DOMAIN d.l |-> dict_to_obj(d.l[i])])
      [] OTHER -> d

\* What a file holds: the format it was written in and the data written.
FsContent(fmt, data) == [fmt |-> fmt, data |-> data]

\* files with file f written (created or overwritten)
FsWrite(files, f, content) ==
    [g \in (DOMAIN files) \cup {f} |-> IF g = f THEN content ELSE files[g]]

\* files without file f
FsRemove(files, f) == [g \in (DOMAIN files) \ {f} |-> files[g]]

\* StoreFs.save_json: the files afterwards and the value returned (1 when
\* json.dump failed and the file was removed again).
save_json(files, f, obj) ==
    IF JsonRaises(obj_to_dict(obj))
    THEN [files |-> FsRemove(files, f), failed |-> TRUE]
    ELSE [files |-> FsWrite(files, f, FsContent("json", obj_to_dict(obj))),
          failed |-> FALSE]

\* StoreFs.save_pickle: epac_joblib.dump writes the index file f.
save_pickle(files, f, obj) == FsWrite(files, f, FsContent("pkl", obj))

\* StoreFs.load_json
load_json(content) == [res |-> "ok", val |-> dict_to_obj(content.data)]

\* try_fun_num_trials: the call is repeated; a call that fails every time fails.
try_fun_num_trials(outcome) == outcome

\* StoreFs.load_pickle, that is epac_joblib.load: the file is read as an index
\* of two file names, one per line.  A file written by json.dump is one line,
\* so reading its second line raises IndexError.
load_pickle(content) ==
    try_fun_num_trials(
        IF content.fmt = "pkl"
        THEN [res |-> "ok", val |-> content.data]
        ELSE [res |-> "IndexError", val |-> NoneV])

\* StoreFs.save(key, obj, protocol): the files and directories afterwards.  The
\* merge argument is never read.
StoreFs_save(files, dirs, key, obj, protocol) ==
    LET txt == save_json(files, FsFile(key, JsonSuffix), obj)
        files1 == IF protocol = "txt" THEN txt.files ELSE files
    IN  [files |-> IF protocol = "bin" \/ txt.failed
                   THEN save_pickle(files1, FsFile(key, PickleSuffix), obj)
                   ELSE files1,
         dirs |-> dirs \cup {Dirname(key)}]

\* The keys that have a file of the store, whatever the directory: os.walk is
\* started at the store root.
FsWalk(files, key) == {f.key : f \in DOMAIN files}

\* The mappings load may build for a directory: one entry per key found by the
\* walk, indexed by the path below the store root.  Where a key has both a
\* .json and a .pkl file the one listed last by os.walk is kept, and the
\* listing order is the file system's.
FsLoaded(files, key) ==
    LET keys == FsWalk(files, key)
        choices(k) ==
            {load_json(files[f]).val : f \in {FsFile(k, JsonSuffix)} \cap DOMAIN files}
            \cup
            {load_pickle(files[f]).val : f \in {FsFile(k, PickleSuffix)} \cap DOMAIN files}
    IN  {MapV(g) : g \in {h \in [keys -> UNION {choices(k) : k \in keys}] :
                             \A k \in keys : h[k] \in choices(k)}}

\* StoreFs.load(key), key not the root: the results the call may have.
StoreFs_load(files, dirs, key) ==
    IF FsFile(key, PickleSuffix) \in DOMAIN files
    THEN {load_pickle(files[FsFile(key, PickleSuffix)])}
    ELSE IF FsFile(key, JsonSuffix) \in DOMAIN files
         THEN {load_pickle(files[FsFile(key, JsonSuffix)])}
         ELSE IF key \in dirs
              THEN {[res |-> "ok", val |-> v] : v \in FsLoaded(files, key)}
              ELSE {[res |-> "ok", val |-> NoneV]}

\* A caller saves obj under key.
FsSave(key, obj, protocol) ==
    /\ LET r == StoreFs_save(fs_files, fs_dirs, key, obj, protocol) IN
         /\ fs_files' = r.files
         /\ fs_dirs' = r.dirs
    /\ fs_last' = [key |-> key, obj |-> obj, protocol |-> protocol]
    /\ fs_ret' = FsNoRet

\* A caller loads a key or a prefix.
FsLoad(key) ==
    /\ \E r \in StoreFs_load(fs_files, fs_dirs, key) :
          fs_ret' = [key |-> key, done |-> TRUE, res |-> r.res, val |-> r.val]
    /\ UNCHANGED <<fs_files, fs_dirs, fs_last>>

(***************************************************************************)
(* extract_values, replace_values and epac_joblib (epac/stores.py).        *)
(* Both functions walk the public data attributes of an object, in the     *)
(* order of dir(), and write each attribute back with setattr.  A number   *)
(* has read-only data attributes (real, imag, ...) and a numpy array has   *)
(* them too (T, shape, ...): writing one back raises AttributeError.       *)
(* Strings have no public data attribute.                                  *)
(***************************************************************************)
\* The default of max_depth in extract_values and in replace_values.
XvMaxDepth == 10

\* The attribute names of the objects, in the order of dir().
XvFields == <<"A", "B">>

\* How deep the longest chain of nested objects is.
MaxChain == 11

XvLeaves == {BigV(1), BigV(2), StrV(1), IntV(1), ArrV}

\* Objects with two attributes, each a leaf or an object with two leaves.
XvObjs ==
    LET names == {XvFields[i] : i \in DOMAIN XvFields}
        inner == {ObjV(f) : f \in [names -> XvLeaves]}
    IN  {ObjV(f) : f \in [names -> XvLeaves \cup inner]}

\* An object holding leaf d attributes deep: o.A.A. ... .A = leaf.
RECURSIVE XvChain(_, _)
XvChain(d, leaf) ==
    IF d = 0 THEN leaf ELSE ObjV([a \in {"A"} |-> XvChain(d - 1, leaf)])

XvInputs ==
    XvLeaves \cup XvObjs \cup {XvChain(d, leaf) : d \in 1..MaxChain, leaf \in XvLeaves}

\* func_is_big_nparray
func_is_big_nparray(v) == v.t = "big"

\* func_can_deeper
func_can_deeper(v) == v.t \notin {"big", "arr"}

\* The public data attributes of v that obj has, in the order of dir().
PublicProps(v) == SelectSeq(XvFields, LAMBDA a : a \in DOMAIN v.m)

\* setattr(v, a, x)
SetAttr(v, a, x) == [v EXCEPT !.m = [b \in DOMAIN v.m |-> IF b = a THEN x ELSE v.m[b]]]

\* Two handle maps joined (dict.update); the handles are all different.
XvJoin(f, g) == [h \in (DOMAIN f) \cup (DOMAIN g) |-> IF h \in DOMAIN g THEN g[h] ELSE f[h]]

\* extract_values(obj, func_is_big_nparray, func_can_deeper, max_depth), next
\* being the next unused handle: the handle map, the object returned (obj
\* itself, changed in place, unless obj is replaced as a whole), the next
\* unused handle, and whether AttributeError was raised.
RECURSIVE extract_values(_, _, _)
RECURSIVE extract_props(_, _, _, _, _)
extract_values(obj, max_depth, next) ==
    IF func_is_big_nparray(obj)
    THEN [arr |-> [h \in {next} |-> obj], obj |-> TagV(next), next |-> next + 1,
          err |-> FALSE]
    ELSE IF max_depth - 1 < 0
         THEN [arr |-> EmptyMap, obj |-> obj, next |-> next, err |-> FALSE]
         ELSE IF obj.t = "int"
              THEN [arr |-> EmptyMap, obj |-> obj, next |-> next, err |-> TRUE]
              ELSE extract_props(obj, PublicProps(obj), max_depth - 1, next, EmptyMap)

\* The loop of extract_values over the attributes props of obj.
extract_props(obj, props, max_depth, next, arr) ==
    IF props = <<>>
    THEN [arr |-> arr, obj |-> obj, next |-> next, err |-> FALSE]
    ELSE LET a == Head(props)
             v == obj.m[a]
         IN  IF func_is_big_nparray(v)
             THEN extract_props(SetAttr(obj, a, TagV(next)), Tail(props), max_depth,
                                next + 1, XvJoin(arr, [h \in {next} |-> v]))
             ELSE IF func_can_deeper(obj)
                  THEN LET r == extract_values(v, max_depth, next) IN
                       IF r.err
                       THEN [arr |-> arr, obj |-> SetAttr(obj, a, r.obj),
                             next |-> r.next, err |-> TRUE]
                       ELSE extract_props(SetAttr(obj, a, r.obj), Tail(props),
                                          max_depth, r.next, XvJoin(arr, r.arr))
                  ELSE extract_props(obj, Tail(props), max_depth, next, arr)

\* replace_values(obj, extracted_values, max_depth): the object returned and
\* whether AttributeError was raised.  A TagObject has one public data
\* attribute, hash_id, a string, which is written back as it is.
RECURSIVE replace_values(_, _, _)
RECURSIVE replace_props(_, _, _, _)
replace_values(obj, extracted_values, max_depth) ==
    IF max_depth - 1 < 0
    THEN [obj |-> obj, err |-> FALSE]
    ELSE IF obj.t \in {"int", "arr", "big"}
         THEN [obj |-> obj, err |-> TRUE]
         ELSE replace_props(obj, PublicProps(obj), extracted_values, max_depth - 1)

\* The loop of replace_values over the attributes props of obj.
replace_props(obj, props, extracted_values, max_depth) ==
    IF props = <<>>
    THEN [obj |-> obj, err |-> FALSE]
    ELSE LET a == Head(props)
             v == obj.m[a]
         IN  IF v.t = "tag"
             THEN replace_props(SetAttr(obj, a, extracted_values[v.n]), Tail(props),
                                extracted_values, max_depth)
             ELSE LET r == replace_values(v, extracted_values, max_depth) IN
                  IF r.err
                  THEN [obj |-> SetAttr(obj, a, r.obj), err |-> TRUE]
                  ELSE replace_props(SetAttr(obj, a, r.obj), Tail(props),
                                     extracted_values, max_depth)

\* epac_joblib.dump: what extract_values returns is written to the two files.
epac_joblib_dump(obj) == extract_values(obj, XvMaxDepth, 1)

\* epac_joblib.load: the two files are read and the placeholders replaced.
epac_joblib_load(file) == replace_values(file.nor, file.mem, XvMaxDepth)

XvNoFile == [mem |-> EmptyMap, nor |-> NoneV]

XvIdle ==
    /\ xv_pc = "idle"
    /\ xv_orig = NoneV
    /\ xv_obj = NoneV
    /\ xv_file = XvNoFile
    /\ xv_out = NoneV

\* A caller has built an object.
XvInit ==
    /\ xv_pc = "new"
    /\ xv_orig \in XvInputs
    /\ xv_obj = xv_orig
    /\ xv_file = XvNoFile
    /\ xv_out = NoneV

\* The caller dumps the object.  extract_values changes the object in place;
\* only when the object is replaced as a whole is the caller's object untouched.
XvDump ==
    /\ xv_pc = "new"
    /\ LET r == epac_joblib_dump(xv_obj) IN
         /\ xv_pc' = IF r.err THEN "dump_failed" ELSE "dumped"
         /\ xv_obj' = IF func_is_big_nparray(xv_obj) THEN xv_obj ELSE r.obj
         /\ xv_file' = IF r.err THEN XvNoFile ELSE [mem |-> r.arr, nor |-> r.obj]
    /\ UNCHANGED <<xv_orig, xv_out>>

\* A process loads the dumped file.
XvLoad ==
    /\ xv_pc = "dumped"
    /\ LET r == epac_joblib_load(xv_file) IN
         /\ xv_pc' = IF r.err THEN "load_failed" ELSE "loaded"
         /\ xv_out' = IF r.err THEN NoneV ELSE r.obj
    /\ UNCHANGED <<xv_orig, xv_obj, xv_file>>

(***************************************************************************)
(* Methods and Grid (epac/workflow/splitters.py) over nodes that wrap an   *)
(* estimator (epac/workflow/wrappers.py).  A node is a record: the class   *)
(* name and the __dict__ of the wrapped object, signature_args,            *)
(* signature2_args_str and the children.  A node of a tree is addressed    *)
(* by its path, the sequence of child positions from the root.             *)
(***************************************************************************)
\* How many nodes a constructor is given at most.
MaxNodes == 2

MtNode(cls, params, children) ==
    [cls |-> cls, params |-> params, signature_args |-> EmptyMap,
     signature2_args_str |-> "", children |-> children]

\* The wrapped objects: class A with the arguments p and q, class B with
\* none.  Here StrV(i) is the string of the decimal numeral of i.
MtEstimators ==
    {[cls |-> "A", params |-> [a \in {"p", "q"} |-> IF a = "p" THEN vp ELSE vq]] :
        vp \in {IntV(1), StrV(1)}, vq \in {IntV(1), IntV(2)}}
    \cup {[cls |-> "B", params |-> EmptyMap]}

\* Estimator(obj): a leaf node wrapping obj.
Estimator(obj) == MtNode(obj.cls, obj.params, <<>>)

\* BaseNode.add_child
add_child(node, child) == [node EXCEPT !.children = Append(@, child)]

\* Pipe(obj1, obj2): the node of obj1 with the node of obj2 as its child.
Pipe(obj1, obj2) == add_child(Estimator(obj1), Estimator(obj2))

\* What a constructor may be given: an estimator, or a node built before.
MtArgs ==
    {[is_node |-> FALSE, node |-> Estimator(o)] : o \in MtEstimators}
    \cup {[is_node |-> TRUE, node |-> Estimator(o)] : o \in MtEstimators}
    \cup {[is_node |-> TRUE, node |-> Pipe(o1, o2)] : o1 \in MtEstimators, o2 \in MtEstimators}

MtArgLists == UNION {[1..n -> MtArgs] : n \in 1..MaxNodes}

\* str(v)
PyStr(v) == IF v.t = "int" THEN StrV(v.n) ELSE v

\* Wrapper.get_signature: the class name alone when signature_args is empty,
\* else followed by the list of name=str(value).
get_signature(node) ==
    [name |-> node.cls,
     args |-> [k \in DOMAIN node.signature_args |-> PyStr(node.signature_args[k])]]

\* Wrapper.get_parameters
get_parameters(node) == node.params

RECURSIVE NodeAt(_, _)
NodeAt(tree, path) ==
    IF path = <<>> THEN tree ELSE NodeAt(tree.children[Head(path)], Tail(path))

\* BaseNode.get_key: the signatures from the root down to the node.
get_key(tree, path) ==
    [i \in 1..(Len(path) + 1) |-> get_signature(NodeAt(tree, SubSeq(path, 1, i - 1)))]

RECURSIVE Flatten(_)
Flatten(ss) == IF ss = <<>> THEN <<>> ELSE Head(ss) \o Flatten(Tail(ss))

\* The paths of the children of the node at path.
ChildPaths(tree, path) ==
    [i \in DOMAIN NodeAt(tree, path).children |-> Append(path, i)]

\* BaseNode.walk_leaves: the paths of the nodes without children below path.
RECURSIVE walk_leaves(_, _)
walk_leaves(tree, path) ==
    IF NodeAt(tree, path).children = <<>>
    THEN <<path>>
    ELSE Flatten([i \in DOMAIN NodeAt(tree, path).children |->
                      walk_leaves(tree, Append(path, i))])

\* The paths of all the nodes below path, path included.
RECURSIVE walk_nodes(_, _)
walk_nodes(tree, path) ==
    <<path>> \o Flatten([i \in DOMAIN NodeAt(tree, path).children |->
                             walk_nodes(tree, Append(path, i))])

\* len(l) != len(set(l))
HasDuplicates(l) == \E i, j \in DOMAIN l : i < j /\ l[i] = l[j]

\* epac.utils._list_indices
_list_indices(l, val) == {i \in DOMAIN l : l[i] = val}

\* epac.utils.dict_diff: the names which some of the dicts lacks or to which
\* two of the dicts give different values.
dict_diff(dicts) ==
    {k \in UNION {DOMAIN d : d \in dicts} :
        \E d1, d2 \in dicts : k \notin DOMAIN d1 \/ (k \in DOMAIN d2 /\ d1[k] # d2[k])}

\* epac.utils._sub_dict
_sub_dict(d, subkeys) == Restrict(d, subkeys)

\* The tree with signature_args of the node at path set to args.
RECURSIVE SetSignatureArgs(_, _, _)
SetSignatureArgs(tree, path, args) ==
    IF path = <<>>
    THEN [tree EXCEPT !.signature_args = args]
    ELSE [tree EXCEPT !.children[Head(path)] = SetSignatureArgs(@, Tail(path), args)]

\* Lines 211-221 for the nodes of curr_nodes from position i on: each node
\* whose key another node of curr_nodes has gets as signature_args its
\* parameters restricted to the names that differ in its group, when there
\* are such names.
RECURSIVE ResolveCollisions(_, _, _, _, _)
ResolveCollisions(tree, curr_nodes, curr_nodes_key, curr_nodes_state, i) ==
    IF i > Len(curr_nodes)
    THEN tree
    ELSE LET collision_indices == _list_indices(curr_nodes_key, curr_nodes_key[i])
             diff_arg_keys == dict_diff({curr_nodes_state[j] : j \in collision_indices})
             tree2 == IF Cardinality(collision_indices) # 1 /\ diff_arg_keys # {}
                      THEN SetSignatureArgs(tree, curr_nodes[i],
                                            _sub_dict(curr_nodes_state[i], diff_arg_keys))
                      ELSE tree
         IN  ResolveCollisions(tree2, curr_nodes, curr_nodes_key, curr_nodes_state, i + 1)

\* The while loop of Methods.__init__ (lines 208-225): the tree it leaves,
\* the number of times its body ran, the candidate nodes left when it ended
\* and, for each run of its body, the depths of its candidate nodes.  The nodes of the next level are listed
\* here in the order of curr_nodes; the code lists them group by group, which
\* gives the same groups at the next level.
RECURSIVE Methods_loop(_, _, _)
Methods_loop(tree, curr_nodes, iters) ==
    LET leaves == walk_leaves(tree, <<>>)
        leaves_key == [i \in DOMAIN leaves |-> get_key(tree, leaves[i])]
    IN  IF HasDuplicates(leaves_key) /\ curr_nodes # <<>>
        THEN LET curr_nodes_key ==
                     [i \in DOMAIN curr_nodes |-> get_key(tree, curr_nodes[i])]
                 curr_nodes_state ==
                     [i \in DOMAIN curr_nodes |-> get_parameters(NodeAt(tree, curr_nodes[i]))]
                 curr_nodes_next ==
                     Flatten([i \in DOMAIN curr_nodes |->
                         IF Cardinality(_list_indices(curr_nodes_key, curr_nodes_key[i])) # 1
                         THEN ChildPaths(tree, curr_nodes[i])
                         ELSE <<>>])
                 r == Methods_loop(ResolveCollisions(tree, curr_nodes, curr_nodes_key,
                                                     curr_nodes_state, 1),
                                   curr_nodes_next, iters + 1)
             IN  [r EXCEPT !.levels = <<{Len(curr_nodes[i]) : i \in DOMAIN curr_nodes}>> \o @]
        ELSE [tree |-> tree, iters |-> iters, left |-> curr_nodes, levels |-> <<>>]

MtNoTree == MtNode("", EmptyMap, <<>>)

\* Methods.__init__ without its last test (lines 226-229), for the class cls
\* and the given nodes:
\* a copy of each node, wrapped in an Estimator if it is not a node, becomes
\* a child; the collision loop runs; ValueError when two leaves still have
\* the same key.
Methods_init_untested(cls, nodes) ==
    LET node_cp(a) == IF a.is_node THEN a.node
                      ELSE Estimator([cls |-> a.node.cls, params |-> a.node.params])
        root == MtNode(cls, EmptyMap, [i \in DOMAIN nodes |-> node_cp(nodes[i])])
        r == Methods_loop(root, ChildPaths(root, <<>>), 0)
        leaves == walk_leaves(r.tree, <<>>)
        leaves_key == [i \in DOMAIN leaves |-> get_key(r.tree, leaves[i])]
    IN  [res |-> "ok", tree |-> r.tree, iters |-> r.iters,
         left |-> r.left, levels |-> r.levels]

\* Methods.__init__ for the class cls (Methods or Grid) and the given nodes:
\* a copy of each node, wrapped in an Estimator if it is not a node, becomes
\* a child; the collision loop runs; ValueError when two leaves still have
\* the same key.
Methods_init(cls, nodes) ==
    LET node_cp(a) == IF a.is_node THEN a.node
                      ELSE Estimator([cls |-> a.node.cls, params |-> a.node.params])
        root == MtNode(cls, EmptyMap, [i \in DOMAIN nodes |-> node_cp(nodes[i])])
        r == Methods_loop(root, ChildPaths(root, <<>>), 0)
        leaves == walk_leaves(r.tree, <<>>)
        leaves_key == [i \in DOMAIN leaves |-> get_key(r.tree, leaves[i])]
    IN  IF HasDuplicates(leaves_key)
        THEN [res |-> "ValueError", tree |-> MtNoTree, iters |-> r.iters,
              left |-> r.left, levels |-> r.levels]
        ELSE [res |-> "ok", tree |-> r.tree, iters |-> r.iters,
              left |-> r.left, levels |-> r.levels]

\* Grid.__init__: Methods.__init__, then every child gets the wildcard as
\* its secondary signature.
Grid_init(nodes) ==
    LET r == Methods_init("Grid", nodes) IN
    IF r.res = "ok"
    THEN [r EXCEPT !.tree.children =
              [i \in DOMAIN @ |-> [@[i] EXCEPT !.signature2_args_str = "*"]]]
    ELSE r

MtIdle ==
    /\ mt_pc = "idle"
    /\ mt_nodes = <<>>
    /\ mt_tree = MtNoTree
    /\ mt_iters = 0

\* A caller has the nodes to combine.
MtInit ==
    /\ mt_pc = "new"
    /\ mt_nodes \in MtArgLists
    /\ mt_tree = MtNoTree
    /\ mt_iters = 0

\* Methods(*nodes)
MtMethods ==
    /\ mt_pc = "new"
    /\ LET r == Methods_init("Methods", mt_nodes) IN
         /\ mt_pc' = IF r.res = "ok" THEN "built" ELSE "failed"
         /\ mt_tree' = r.tree
         /\ mt_iters' = r.iters
    /\ UNCHANGED mt_nodes

\* Grid(*nodes)
MtGrid ==
    /\ mt_pc = "new"
    /\ LET r == Grid_init(mt_nodes) IN
         /\ mt_pc' = IF r.res = "ok" THEN "built" ELSE "failed"
         /\ mt_tree' = r.tree
         /\ mt_iters' = r.iters
    /\ UNCHANGED mt_nodes

(***************************************************************************)
(* CV, Perms, SlicerVirtualList and RowSlicer (epac/workflow/splitters.py).*)
(* Row indices count from 0.  An array is the sequence of its rows; an     *)
(* entry of a flow is an array or a value without a shape.                 *)
(***************************************************************************)
\* How many rows a dataset has at most.
MaxRows == 3

\* How many children a CV or Perms node is built with at most.
MaxFolds == 2

\* CV.SUFFIX_TRAIN, CV.SUFFIX_TEST
SUFFIX_TRAIN == "train"

SUFFIX_TEST == "test"

SlArray(rows) == [arr |-> TRUE, rows |-> rows]

SlScalar == [arr |-> FALSE, rows |-> <<>>]

\* The slices of a RowSlicer: None, a dict of train and test, or a list.
SlNone == [t |-> "none", train |-> <<>>, test |-> <<>>, list |-> <<>>]

SlDict(train, test) == [t |-> "dict", train |-> train, test |-> test, list |-> <<>>]

SlList(l) == [t |-> "list", train |-> <<>>, test |-> <<>>, list |-> l]

\* The elements of the set S of numbers as an increasing sequence.
RECURSIVE SortedSeq(_)
SortedSeq(S) ==
    IF S = {} THEN <<>>
    ELSE LET x == CHOOSE y \in S : \A z \in S : y <= z
         IN  <<x>> \o SortedSeq(S \ {x})

Range(f) == {f[i] : i \in DOMAIN f}

\* One fold: the test rows and all the other rows as train rows.
SlFold(n, test) == SlDict(SortedSeq((0..(n - 1)) \ test), SortedSeq(test))

\* sklearn KFold(n, n_folds): n_folds blocks of consecutive rows, the first
\* n % n_folds blocks one row longer.
KFold(n, n_folds) ==
    LET size(i) == (n \div n_folds) + (IF i <= n % n_folds THEN 1 ELSE 0)
        start(i) == (i - 1) * (n \div n_folds) + (IF i - 1 <= n % n_folds THEN i - 1 ELSE n % n_folds)
    IN  [i \in 1..n_folds |-> SlFold(n, {r \in 0..(n - 1) : start(i) <= r /\ r < start(i) + size(i)})]

\* sklearn StratifiedKFold(y, n_folds): the rows in the order of their
\* labels, dealt in turn to the n_folds folds.
StratifiedKFold(y, n_folds) ==
    LET n == Len(y)
        rank(r) == Cardinality({q \in 0..(n - 1) :
                       y[q + 1] < y[r + 1] \/ (y[q + 1] = y[r + 1] /\ q < r)})
    IN  [i \in 1..n_folds |-> SlFold(n, {r \in 0..(n - 1) : rank(r) % n_folds = i - 1})]

\* sklearn LeaveOneOut(n): one fold per row.
LeaveOneOut(n) == [i \in 1..n |-> SlFold(n, {i - 1})]

\* The permutations of the rows 0..n-1 that a drawing may give; of the n!
\* permutations the rotations are kept.
RowPermutations(n) == {[i \in 1..n |-> (i - 1 + k) % n] : k \in 0..(n - 1)}

\* RowSlicer.__init__
\* The values of apply_on: None, a string, or a list of strings.  names are
\* the elements a loop over the value walks: none for None, the characters
\* of a string (names are one character long here), the elements of a list.
SlApplyNone == [t |-> "none", names |-> <<>>]

SlApplyStr(name) == [t |-> "str", names |-> <<name>>]

SlApplyList(names) == [t |-> "list", names |-> names]

RowSlicer_init(signature_name, nb, apply_on) ==
    [signature_name |-> signature_name, nb |-> nb, slices |-> SlNone, n |-> 0,
     apply_on |-> apply_on]

\* Slicer.set_nb
set_nb(slicer, nb) == [slicer EXCEPT !.nb = nb]

RECURSIVE SeqSum(_)
SeqSum(s) == IF s = <<>> THEN 0 ELSE Head(s) + SeqSum(Tail(s))

\* RowSlicer.set_sclices
set_sclices(slicer, slices) ==
    [slicer EXCEPT !.slices = slices,
                   !.n = IF slices.t = "dict"
                         THEN SeqSum(<<Len(slices.train), Len(slices.test)>>)
                         ELSE Len(slices.list)]

\* CV.__init__ and Perms.__init__: the node with its virtual list of size
\* children.  apply_on is None for CV and the name to permute for Perms.
CV_init(n_folds, cv_type) ==
    [cls |-> "CV", size |-> n_folds, n_folds |-> n_folds, cv_type |-> cv_type,
     has_sclices |-> FALSE, _sclices |-> <<>>]

Perms_init(n_perms) ==
    [cls |-> "Perms", size |-> n_perms, n_folds |-> n_perms, cv_type |-> "",
     has_sclices |-> FALSE, _sclices |-> <<>>]

\* move_to_child that leaves slices alone once they are set.
move_to_child_once(cv, nb, slicer) ==
    IF cv.has_sclices /\ slicer.slices = SlNone
    THEN LET last == Len(cv._sclices)
             at == IF 0 <= nb /\ nb < last THEN nb + 1 ELSE last
         IN  set_sclices(set_nb(slicer, nb), cv._sclices[at])
    ELSE set_nb(slicer, nb)

\* CV.move_to_child and Perms.move_to_child: the Slicer gets the ordinal nb
\* and, once the plan is set, the slices at position nb of the plan; the
\* loop over the plan stops at its last element when nb is not a position.
move_to_child(cv, nb, slicer) ==
    IF cv.has_sclices
    THEN LET last == Len(cv._sclices)
             at == IF 0 <= nb /\ nb < last THEN nb + 1 ELSE last
         IN  set_sclices(set_nb(slicer, nb), cv._sclices[at])
    ELSE set_nb(slicer, nb)

\* SlicerVirtualList.__len__
SlicerVirtualList_len(cv) == cv.size

\* __getitem__ that never moves the Slicer.
SlicerVirtualList_getitem_still(cv, slicer, i) ==
    IF i >= cv.size
    THEN [res |-> "IndexError", slicer |-> slicer]
    ELSE [res |-> "ok", slicer |-> slicer]

\* SlicerVirtualList.__getitem__
SlicerVirtualList_getitem(cv, slicer, i) ==
    IF i >= cv.size
    THEN [res |-> "IndexError", slicer |-> slicer]
    ELSE [res |-> "ok", slicer |-> move_to_child(cv, i, slicer)]

\* CV.transform and Perms.transform without recursion: the slice plan is
\* built from the rows of y.  The set of the possible outcomes: one for CV,
\* one per drawing of the permutations for Perms (the first permutation of
\* epac.sklearn_plugins.Permutations is the identity).  KFold and
\* StratifiedKFold refuse fewer than 2 folds and more folds than rows.
CV_transform(cv, flow) ==
    IF "y" \notin DOMAIN flow
    THEN {[res |-> "ValueError", cv |-> cv]}
    ELSE LET y == flow["y"].rows
             n == Len(y)
             planned(plan) == [res |-> "ok",
                               cv |-> [cv EXCEPT !.has_sclices = TRUE, !._sclices = plan]]
             refused == cv.n_folds < 2 \/ cv.n_folds > n
         IN  IF cv.cls = "Perms"
             THEN {planned([i \in 1..cv.n_folds |-> SlList(q[i])]) :
                     q \in {p \in [1..cv.n_folds -> RowPermutations(n)] :
                               p[1] = [r \in 1..n |-> r - 1]}}
             ELSE IF cv.cv_type = "stratified"
             THEN IF refused THEN {[res |-> "ValueError", cv |-> cv]}
                  ELSE {planned(StratifiedKFold(y, cv.n_folds))}
             ELSE IF cv.cv_type = "random"
             THEN IF refused THEN {[res |-> "ValueError", cv |-> cv]}
                  ELSE {planned(KFold(n, cv.n_folds))}
             ELSE IF cv.cv_type = "loo"
             THEN {planned(LeaveOneOut(n))}
             ELSE {[res |-> "ok", cv |-> cv]}

SlNoFlow == [a \in {} |-> SlScalar]

SlNoCv == [cls |-> "", size |-> 0, n_folds |-> 0, cv_type |-> "",
           has_sclices |-> FALSE, _sclices |-> <<>>]

SlNoRet == [op |-> "", arg |-> 0, recursion |-> FALSE, sample_set |-> "",
            res |-> "", flow_in |-> SlNoFlow, flow |-> SlNoFlow,
            keys_order |-> <<>>,
            before |-> RowSlicer_init("", 0, SlApplyNone), child_calls |-> 0]

SlIdle ==
    /\ sl_pc = "idle"
    /\ sl_cv = SlNoCv
    /\ sl_slicer = RowSlicer_init("", 0, SlApplyNone)
    /\ sl_ret = SlNoRet
    /\ sl_it = 0

\* The values of cv_type: the three of the docstring, and one that is none
\* of them (the constructor accepts any value).
SlCvTypes == {"stratified", "random", "loo", "kfold"}

\* The label arrays y of the datasets.
SlLabels == UNION {[1..n -> {0, 1}] : n \in 1..MaxRows}

\* A CV or a Perms node has been built (CV.__init__, Perms.__init__).
CvInit ==
    /\ sl_pc = "run"
    /\ \E k \in 1..MaxFolds :
          \/ \E t \in SlCvTypes :
                /\ sl_cv = CV_init(k, t)
                /\ sl_slicer = RowSlicer_init("CV", 0, SlApplyNone)
          \/ /\ sl_cv = Perms_init(k)
             /\ sl_slicer = RowSlicer_init("Perm", 0, SlApplyStr("y"))
    /\ sl_ret = SlNoRet
    /\ sl_it = 0

\* node.children[i]
CvGetItem(i) ==
    /\ sl_pc = "run"
    /\ LET r == SlicerVirtualList_getitem(sl_cv, sl_slicer, i) IN
         /\ sl_slicer' = r.slicer
         /\ sl_ret' = [SlNoRet EXCEPT !.op = "getitem", !.arg = i, !.res = r.res,
                                      !.before = sl_slicer]
    /\ UNCHANGED <<sl_pc, sl_cv, sl_it>>

\* CV.transform(recursion=False, y=y), and CV.fit(recursion=False, y=y)
\* which is the same call: the plan is set, anew at every call.
CvTransform(y) ==
    /\ sl_pc = "run"
    /\ sl_cv.cls = "CV"
    /\ \E r \in CV_transform(sl_cv, [a \in {"y"} |-> SlArray(y)]) :
         /\ sl_cv' = r.cv
         /\ sl_ret' = [SlNoRet EXCEPT !.op = "plan", !.arg = Len(y), !.res = r.res,
                                      !.flow_in = [a \in {"y"} |-> SlArray(y)],
                                      !.before = sl_slicer]
    /\ UNCHANGED <<sl_pc, sl_slicer, sl_it>>

\* Perms.transform(recursion=False, y=y) and Perms.fit(recursion=False, y=y)
\* with any array y of n rows: the call reads the number of rows of y and
\* nothing else of it, and sets the plan anew.
PermsTransform(n) ==
    /\ sl_pc = "run"
    /\ sl_cv.cls = "Perms"
    /\ \E r \in CV_transform(sl_cv, [a \in {"y"} |-> SlArray([i \in 1..n |-> 0])]) :
         /\ sl_cv' = r.cv
         /\ sl_ret' = [SlNoRet EXCEPT !.op = "plan", !.arg = n, !.res = r.res,
                                      !.before = sl_slicer]
    /\ UNCHANGED <<sl_pc, sl_slicer, sl_it>>

\* node.transform(recursion=False) on a flow without y.
CvTransformNoY ==
    /\ sl_pc = "run"
    /\ \E r \in CV_transform(sl_cv, SlNoFlow) :
         /\ sl_cv' = r.cv
         /\ sl_ret' = [SlNoRet EXCEPT !.op = "plan", !.res = r.res, !.before = sl_slicer]
    /\ UNCHANGED <<sl_pc, sl_slicer, sl_it>>

\* SlicerVirtualList.append
SlicerVirtualList_append(slicer, new_slicer) == new_slicer

\* The Slicers a caller appends to the children of a node.
SlAppended == {RowSlicer_init("Other", 7, SlApplyStr("X"))}

\* node.children.append(slicer): the list holds slicer from now on, and the
\* Slicer it held is no longer the one indexing moves and returns.
CvAppend(slicer) ==
    /\ sl_pc = "run"
    /\ sl_slicer' = SlicerVirtualList_append(sl_slicer, slicer)
    /\ sl_ret' = [SlNoRet EXCEPT !.op = "append", !.res = "ok"]
    /\ UNCHANGED <<sl_pc, sl_cv, sl_it>>

\* SlicerVirtualList.__iter__ from position i on: the generator yields the
\* child at position i and goes on to i + 1; past the last position it
\* ends and nothing is changed.
SlicerVirtualList_iter(cv, slicer, i) ==
    IF i >= cv.size
    THEN [res |-> "StopIteration", slicer |-> slicer, next |-> i]
    ELSE [res |-> "ok", slicer |-> SlicerVirtualList_getitem(cv, slicer, i).slicer,
          next |-> i + 1]

\* it = iter(node.children): a new iterator, which replaces the one kept.
CvIter ==
    /\ sl_pc = "run"
    /\ sl_it' = 0
    /\ sl_ret' = [SlNoRet EXCEPT !.op = "new_iter", !.res = "ok", !.before = sl_slicer]
    /\ UNCHANGED <<sl_pc, sl_cv, sl_slicer>>

\* next(it): one step of the iterator, wherever the calls made since its
\* last step left the node.
CvIterNext ==
    /\ sl_pc = "run"
    /\ LET r == SlicerVirtualList_iter(sl_cv, sl_slicer, sl_it) IN
         /\ sl_slicer' = r.slicer
         /\ sl_it' = r.next
         /\ sl_ret' = [SlNoRet EXCEPT !.op = "iter", !.arg = sl_it, !.res = r.res,
                                      !.before = sl_slicer]
    /\ UNCHANGED <<sl_pc, sl_cv>>

\* An entry that is not an array or whose first axis is not n long.
SlMismatch(entry, n) == ~entry.arr \/ Len(entry.rows) # n

\* The list l without its element at position i.
RemoveAt(l, i) == SubSeq(l, 1, i - 1) \o SubSeq(l, i + 1, Len(l))

\* The loop of lines 340-343 from position i of the list data_keys on: a
\* mismatched key is removed from the list the loop is walking, so the key
\* that follows it moves to position i and is never looked at; a key that
\* the flow does not have ends the loop with the list as it then is.
RECURSIVE FilterKeys(_, _, _, _)
FilterKeys(flow, n, data_keys, i) ==
    IF i > Len(data_keys)
    THEN [res |-> "ok", data_keys |-> data_keys]
    ELSE IF data_keys[i] \notin DOMAIN flow
         THEN [res |-> "KeyError", data_keys |-> data_keys]
         ELSE IF SlMismatch(flow[data_keys[i]], n)
              THEN FilterKeys(flow, n, RemoveAt(data_keys, i), i + 1)
              ELSE FilterKeys(flow, n, data_keys, i + 1)

\* Xy[data_key][indices] with a list of row indices.
SlIndex(entry, indices) ==
    IF ~entry.arr
    THEN [res |-> "TypeError", entry |-> entry]
    ELSE IF \E j \in DOMAIN indices : indices[j] >= Len(entry.rows)
         THEN [res |-> "IndexError", entry |-> entry]
         ELSE [res |-> "ok",
               entry |-> SlArray([j \in DOMAIN indices |-> entry.rows[indices[j] + 1]])]

\* The loop of lines 344-356 from position i of data_keys on.
RECURSIVE SliceKeys(_, _, _, _, _)
SliceKeys(slicer, sample_set, flow, data_keys, i) ==
    IF i > Len(data_keys)
    THEN [res |-> "ok", flow |-> flow]
    ELSE IF data_keys[i] \notin DOMAIN flow
         THEN SliceKeys(slicer, sample_set, flow, data_keys, i + 1)
         ELSE IF slicer.slices.t = "dict" /\ sample_set = ""
              THEN [res |-> "ValueError_sample_set", flow |-> SlNoFlow]
              ELSE LET indices == IF slicer.slices.t = "dict"
                                  THEN IF sample_set = SUFFIX_TRAIN
                                       THEN slicer.slices.train
                                       ELSE slicer.slices.test
                                  ELSE slicer.slices.list
                       r == SlIndex(flow[data_keys[i]], indices)
                   IN  IF r.res # "ok"
                       THEN [res |-> r.res, flow |-> SlNoFlow]
                       ELSE SliceKeys(slicer, sample_set,
                                      [flow EXCEPT ![data_keys[i]] = r.entry],
                                      data_keys, i + 1)

\* Lines 338-357 of RowSlicer.transform: data_keys is apply_on itself when
\* apply_on is not empty, and else the keys of the flow, which a dict lists
\* in the order keys_order.  A string has no remove; a list loses the keys
\* that the loop removes, and it is the list the Slicer holds.
RowSlicer_slice(slicer, sample_set, flow, keys_order) ==
    LET apply_on == slicer.apply_on
        raised(res, s) == [res |-> res, flow |-> SlNoFlow, slicer |-> s]
    IN  IF apply_on.t = "str" /\ apply_on.names # <<>>
        THEN IF apply_on.names[1] \notin DOMAIN flow
             THEN raised("KeyError", slicer)
             ELSE IF SlMismatch(flow[apply_on.names[1]], slicer.n)
                  THEN raised("AttributeError", slicer)
                  ELSE LET r == SliceKeys(slicer, sample_set, flow, apply_on.names, 1)
                       IN  [res |-> r.res, flow |-> r.flow, slicer |-> slicer]
        ELSE LET aliased == apply_on.names # <<>>
                 f == FilterKeys(flow, slicer.n,
                                 IF aliased THEN apply_on.names ELSE keys_order, 1)
                 after == IF aliased
                          THEN [slicer EXCEPT !.apply_on = SlApplyList(f.data_keys)]
                          ELSE slicer
             IN  IF f.res # "ok"
                 THEN raised(f.res, after)
                 ELSE LET r == SliceKeys(slicer, sample_set, flow, f.data_keys, 1)
                      IN  [res |-> r.res, flow |-> r.flow, slicer |-> after]

\* "not self.slices"
SlNotSet(slices) == slices.t = "none" \/ (slices.t = "list" /\ slices.list = <<>>)

RECURSIVE RowSlicer_transform(_, _, _, _, _)
RECURSIVE RowSlicer_fit(_, _, _, _)
RECURSIVE RowSlicer_predict(_, _, _, _)

\* BaseNode.top_down on a RowSlicer: the method func_name of the node without
\* recursion, then the same pass on its child with the flow it returned.
RowSlicer_top_down(slicer, func_name, flow, keys_order) ==
    LET own == IF func_name = "fit" THEN RowSlicer_fit(slicer, FALSE, flow, keys_order)
               ELSE IF func_name = "predict"
                    THEN RowSlicer_predict(slicer, FALSE, flow, keys_order)
                    ELSE RowSlicer_transform(slicer, FALSE, "", flow, keys_order)
    IN  IF own.res # "ok" THEN own ELSE [own EXCEPT !.child_calls = 1]

\* RowSlicer.transform without its test of self.slices.
RowSlicer_transform_unchecked(slicer, recursion, sample_set, flow, keys_order) ==
    IF recursion
    THEN RowSlicer_top_down(slicer, "transform", flow, keys_order)
    ELSE LET r == RowSlicer_slice(slicer, sample_set, flow, keys_order)
         IN  [res |-> r.res, flow |-> r.flow, child_calls |-> 0, slicer |-> r.slicer]

\* RowSlicer.transform
RowSlicer_transform(slicer, recursion, sample_set, flow, keys_order) ==
    IF SlNotSet(slicer.slices)
    THEN [res |-> "ValueError_not_initialized", flow |-> SlNoFlow, child_calls |-> 0,
          slicer |-> slicer]
    ELSE IF recursion
         THEN RowSlicer_top_down(slicer, "transform", flow, keys_order)
         ELSE LET r == RowSlicer_slice(slicer, sample_set, flow, keys_order)
              IN  [res |-> r.res, flow |-> r.flow, child_calls |-> 0,
                   slicer |-> r.slicer]

\* RowSlicer.fit
RowSlicer_fit(slicer, recursion, flow, keys_order) ==
    IF recursion
    THEN RowSlicer_top_down(slicer, "fit", flow, keys_order)
    ELSE RowSlicer_transform(slicer, FALSE, SUFFIX_TRAIN, flow, keys_order)

\* RowSlicer.predict
RowSlicer_predict(slicer, recursion, flow, keys_order) ==
    IF recursion
    THEN RowSlicer_top_down(slicer, "predict", flow, keys_order)
    ELSE RowSlicer_transform(slicer, FALSE, SUFFIX_TEST, flow, keys_order)

\* The names and the entries of the flows given to a Slicer.
SlNames == {"X", "y"}

SlEntries == {SlArray([r \in 1..k |-> r]) : k \in 1..MaxRows} \cup {SlScalar}

SlFlows == UNION {[S -> SlEntries] : S \in SUBSET SlNames}

\* The orders in which a dict may list the keys of flow.
SlOrders(flow) ==
    LET S == DOMAIN flow IN
    {o \in [1..Cardinality(S) -> S] : \A i, j \in DOMAIN o : o[i] = o[j] => i = j}

\* The CV and Perms nodes after construction, and after their plan is set.
SlBuiltNodes ==
    {CV_init(k, t) : k \in 1..MaxFolds, t \in SlCvTypes}
    \cup {Perms_init(k) : k \in 1..MaxFolds}

SlPlannedNodes ==
    UNION {{r.cv : r \in {q \in CV_transform(c, [a \in {"y"} |-> SlArray(y)]) : q.res = "ok"}} :
              c \in SlBuiltNodes, y \in SlLabels}

SlFresh(c) ==
    IF c.cls = "CV" THEN RowSlicer_init("CV", 0, SlApplyNone) ELSE RowSlicer_init("Perm", 0, SlApplyStr("y"))

\* The states a node leaves its Slicer in: as built, or moved to a child.
SlNodeSlicers ==
    {SlFresh(c) : c \in SlBuiltNodes}
    \cup UNION {{move_to_child(c, i, SlFresh(c)) : i \in 0..(c.size - 1)} :
                   c \in SlPlannedNodes}

\* The lists of names given as apply_on.
SlApplyLists == {<<"X">>, <<"y">>, <<"X", "y">>, <<"y", "X">>}

\* The Slicers: those of the nodes, and those built with a list of names as
\* apply_on that were given the slices of a plan.
SlSlicers ==
    SlNodeSlicers
    \cup {[s EXCEPT !.apply_on = SlApplyList(l)] :
             s \in {q \in SlNodeSlicers : q.signature_name = "CV"}, l \in SlApplyLists}

\* A Slicer as a node or its builder left it.
SlInit ==
    /\ sl_pc = "run"
    /\ sl_cv = SlNoCv
    /\ sl_slicer \in SlSlicers
    /\ sl_ret = SlNoRet
    /\ sl_it = 0

\* One call of a method of the Slicer, which leaves the Slicer as r has it;
\* a run is one call.
SlCall(op, recursion, sample_set, flow, keys_order, r) ==
    /\ sl_pc = "run"
    /\ sl_pc' = "called"
    /\ sl_slicer' = r.slicer
    /\ sl_ret' = [SlNoRet EXCEPT !.op = op, !.recursion = recursion,
                                 !.sample_set = sample_set, !.flow_in = flow,
                                 !.keys_order = keys_order,
                                 !.res = r.res, !.flow = r.flow,
                                 !.child_calls = r.child_calls, !.before = sl_slicer]
    /\ UNCHANGED <<sl_cv, sl_it>>

\* slicer.transform(recursion, sample_set, **flow)
SlTransform(recursion, sample_set, flow, keys_order) ==
    SlCall("transform", recursion, sample_set, flow, keys_order,
           RowSlicer_transform(sl_slicer, recursion, sample_set, flow, keys_order))

\* slicer.fit(recursion, **flow)
SlFit(recursion, flow, keys_order) ==
    SlCall("fit", recursion, "", flow, keys_order,
           RowSlicer_fit(sl_slicer, recursion, flow, keys_order))

\* slicer.predict(recursion, **flow)
SlPredict(recursion, flow, keys_order) ==
    SlCall("predict", recursion, "", flow, keys_order,
           RowSlicer_predict(sl_slicer, recursion, flow, keys_order))

(***************************************************************************)
(* InternalEstimator and LeafEstimator (epac/workflow/estimators.py).      *)
(* A flow maps keys to values; a key is a name with a role, "train",       *)
(* "test" or none.  The wrapped estimator is user code: fit remembers its  *)
(* arguments, predict and transform return a value made of the arguments   *)
(* of the last fit and of their own arguments.                             *)
(***************************************************************************)
\* How many times a node is called in a run.
MaxTransforms == 2

\* conf.TRAIN, conf.TEST and conf.KW_SPLIT_TRAIN_TEST
EsTrain == "train"

EsTest == "test"

KW_SPLIT_TRAIN_TEST == [name |-> "split_train_test", role |-> ""]

EsKey(name, role) == [name |-> name, role |-> role]

EsNoArgs == [a \in {} |-> 0]

\* A value of the dataset, and a value an estimator computed.
EsData(i) == [kind |-> "data", id |-> i, fitted |-> EsNoArgs, input |-> EsNoArgs]

EsOut(method, fitted, input) == [kind |-> method, id |-> 0, fitted |-> fitted, input |-> input]

\* epac.utils.train_test_split: the entries of each role, under their names.
train_test_split(Xy) ==
    LET part(role) ==
            [name \in {k.name : k \in {q \in DOMAIN Xy : q.role = role}} |->
                Xy[EsKey(name, role)]]
    IN  [train |-> part(EsTrain), test |-> part(EsTest)]

\* epac.utils.train_test_merge: the names of the first dict with the train
\* suffix, those of the second with the test suffix.
train_test_merge(Xy_train, Xy_test) ==
    [k \in {EsKey(name, EsTrain) : name \in DOMAIN Xy_train}
           \cup {EsKey(name, EsTest) : name \in DOMAIN Xy_test} |->
        IF k.role = EsTrain THEN Xy_train[k.name] ELSE Xy_test[k.name]]

\* epac.utils._as_dict for a value that is not a dict and one key.
_as_dict(v, keys) == [name \in {keys[1]} |-> v]

\* The arguments named in names that the dict d has.
EsArgs(d, names) == Restrict(d, {names[i] : i \in DOMAIN names})

\* A flow without roles as a dict of names, and back.
EsPlain(Xy) == [name \in {k.name : k \in DOMAIN Xy} |-> Xy[EsKey(name, "")]]

EsKeyed(d) == [k \in {EsKey(name, "") : name \in DOMAIN d} |-> d[k.name]]

\* dict.update on flows
EsUpdate(Xy, Xy_out) ==
    [k \in (DOMAIN Xy) \cup (DOMAIN Xy_out) |-> IF k \in DOMAIN Xy_out THEN Xy_out[k] ELSE Xy[k]]

\* The estimator after a call of one of its methods.
EsCalled(est, method, args) ==
    [fitted |-> IF method = "fit" THEN args ELSE est.fitted,
     calls |-> Append(est.calls, [method |-> method, args |-> args])]

\* LeafEstimator.__init__ and InternalEstimator.__init__ for an estimator
\* with fit(X, y) and predict(X) or transform(X).
LeafEstimator_init ==
    [cls |-> "LeafEstimator", in_args_fit |-> <<"X", "y">>, in_args_out |-> <<"X">>,
     out_args |-> <<"y">>, method |-> "predict"]

InternalEstimator_init ==
    [cls |-> "InternalEstimator", in_args_fit |-> <<"X", "y">>, in_args_out |-> <<"X">>,
     out_args |-> <<"X">>, method |-> "transform"]

\* The three estimator calls of the merged branch in another order: the
\* outputs are computed before the estimator is fitted.
EsSplitCalls_fit_last(node, est, Xy) ==
    LET s == train_test_split(Xy)
        in_tr == EsArgs(s.train, node.in_args_out)
        in_te == EsArgs(s.test, node.in_args_out)
        est1 == EsCalled(est, node.method, in_tr)
        est2 == EsCalled(est1, node.method, in_te)
        est3 == EsCalled(est2, "fit", EsArgs(s.train, node.in_args_fit))
    IN  [est |-> est3,
         Xy_out |-> train_test_merge(
                        _as_dict(EsOut(node.method, est.fitted, in_tr), node.out_args),
                        _as_dict(EsOut(node.method, est1.fitted, in_te), node.out_args))]

\* The branch taken when the flow is merged (estimators.py:73-82, 137-146):
\* fit on the train entries, then the output method on the train and on the
\* test entries, and the two outputs merged.
EsSplitCalls(node, est, Xy) ==
    LET s == train_test_split(Xy)
        in_tr == EsArgs(s.train, node.in_args_out)
        in_te == EsArgs(s.test, node.in_args_out)
        est1 == EsCalled(est, "fit", EsArgs(s.train, node.in_args_fit))
        est2 == EsCalled(est1, node.method, in_tr)
        est3 == EsCalled(est2, node.method, in_te)
    IN  [est |-> est3,
         Xy_out |-> train_test_merge(
                        _as_dict(EsOut(node.method, est1.fitted, in_tr), node.out_args),
                        _as_dict(EsOut(node.method, est2.fitted, in_te), node.out_args))]

\* The branch taken when the flow is not merged (estimators.py:84-88, 148-152).
EsPlainCalls(node, est, Xy) ==
    LET d == EsPlain(Xy)
        in_out == EsArgs(d, node.in_args_out)
        est1 == EsCalled(est, "fit", EsArgs(d, node.in_args_fit))
        est2 == EsCalled(est1, node.method, in_out)
    IN  [est |-> est2,
         Xy_out |-> EsKeyed(_as_dict(EsOut(node.method, est1.fitted, in_out), node.out_args))]

\* LeafEstimator.transform: the outputs alone are returned.
LeafEstimator_transform(node, est, Xy) ==
    LET r == IF KW_SPLIT_TRAIN_TEST \in DOMAIN Xy
             THEN EsSplitCalls(node, est, Xy)
             ELSE EsPlainCalls(node, est, Xy)
    IN  [est |-> r.est, flow |-> r.Xy_out]

\* InternalEstimator.transform: the flow updated with the outputs is returned.
InternalEstimator_transform(node, est, Xy) ==
    LET r == IF KW_SPLIT_TRAIN_TEST \in DOMAIN Xy
             THEN EsSplitCalls(node, est, Xy)
             ELSE EsPlainCalls(node, est, Xy)
    IN  [est |-> r.est, flow |-> EsUpdate(Xy, r.Xy_out)]

EsNoFlow == [k \in {} |-> EsData(0)]

EsNoNode == [cls |-> "", in_args_fit |-> <<>>, in_args_out |-> <<>>, out_args |-> <<>>,
             method |-> ""]

EsNewEstimator == [fitted |-> EsNoArgs, calls |-> <<>>]

EsNoRet == [nb |-> 0, flow_in |-> EsNoFlow, flow |-> EsNoFlow, calls_before |-> 0]

EsIdle ==
    /\ es_pc = "idle"
    /\ es_node = EsNoNode
    /\ es_est = EsNewEstimator
    /\ es_ret = EsNoRet

\* The flows given to a node: X and y without roles, or X and y in both
\* roles with the flag of a merged flow.
EsFlows ==
    {[k \in {EsKey("X", ""), EsKey("y", "")} |-> EsData(IF k.name = "X" THEN x ELSE y)] :
        x \in {1, 2}, y \in {1, 2}}
    \cup {[k \in {EsKey("X", EsTrain), EsKey("X", EsTest), EsKey("y", EsTrain),
                  EsKey("y", EsTest), KW_SPLIT_TRAIN_TEST} |->
              EsData(IF k = KW_SPLIT_TRAIN_TEST THEN 1
                     ELSE IF k.role = EsTrain THEN tr ELSE te)] :
            tr \in {1, 2}, te \in {1, 2}}

\* A node has been built around a new estimator.
EsInit ==
    /\ es_pc = "run"
    /\ es_node \in {LeafEstimator_init, InternalEstimator_init}
    /\ es_est = EsNewEstimator
    /\ es_ret = EsNoRet

EsTransformed(Xy, r) ==
    /\ es_est' = r.est
    /\ es_ret' = [nb |-> es_ret.nb + 1, flow_in |-> Xy, flow |-> r.flow,
                  calls_before |-> Len(es_est.calls)]
    /\ UNCHANGED <<es_pc, es_node>>

\* node.transform(**Xy) of a LeafEstimator
EsLeafTransform(Xy) ==
    /\ es_pc = "run"
    /\ es_node.cls = "LeafEstimator"
    /\ es_ret.nb < MaxTransforms
    /\ EsTransformed(Xy, LeafEstimator_transform(es_node, es_est, Xy))

\* node.transform(**Xy) of an InternalEstimator
EsInternalTransform(Xy) ==
    /\ es_pc = "run"
    /\ es_node.cls = "InternalEstimator"
    /\ es_ret.nb < MaxTransforms
    /\ EsTransformed(Xy, InternalEstimator_transform(es_node, es_est, Xy))

(***************************************************************************)
(* CVBestSearchRefit (epac/workflow/estimators.py).  The node searched is  *)
(* a Methods tree as built above; an estimator is the object wrapped by a  *)
(* node of that tree and is told apart by the place of its node.           *)
(***************************************************************************)
\* How many times fit is called in a run.
MaxFits == 2

\* The mean scores a branch may get from the cross-validation.
BsScores == {0, 1}

BsA(vq) == [cls |-> "A", params |-> [a \in {"p", "q"} |-> IF a = "p" THEN IntV(1) ELSE IntV(vq)]]

BsB == [cls |-> "B", params |-> EmptyMap]

BsEst(o) == [is_node |-> FALSE, node |-> Estimator(o)]

BsPipe(o1, o2) == [is_node |-> TRUE, node |-> Pipe(o1, o2)]

\* The methods searched: two or three settings of one estimator, and
\* pipelines of two steps.
BsNodeLists ==
    {<<BsEst(BsA(1)), BsEst(BsA(2))>>,
     <<BsEst(BsA(1)), BsEst(BsA(2)), BsEst(BsB)>>,
     <<BsPipe(BsA(1), BsB), BsPipe(BsA(2), BsB)>>,
     <<BsPipe(BsB, BsA(1)), BsPipe(BsA(1), BsA(2))>>}

\* node.estimator of the node at path
BsEstimator(tree, path) ==
    [path |-> path, cls |-> NodeAt(tree, path).cls, params |-> NodeAt(tree, path).params]

\* The branches of the search: the paths of the leaves, in tree order.
BsBranches(tree) == walk_leaves(tree, <<>>)

\* result.key() of the branch ending at the leaf at path, as key_split gives
\* it: the signatures of the nodes from below the Methods node to the leaf.
BsBranchKey(tree, path) == Tail(get_key(tree, path))

\* BaseNode.walk_true_nodes below the CV: the nodes of the tree that wrap an
\* estimator, parents before children, children in order.
walk_true_nodes(tree) == Tail(walk_nodes(tree, <<>>))

\* A new StoreMem()
BsStoreMem(fit_nb) == [created_in |-> fit_nb, dict |-> EmptyMap]

BsNoNode == [arg_max |-> TRUE, tree |-> MtNoTree, children |-> <<>>, dict |-> EmptyMap]

\* CVBestSearchRefit.__init__, the set of its possible outcomes.  Line 175
\* passes the keyword estimator to BaseNode.__init__, which every other
\* class calls without argument: a BaseNode.__init__ that takes no such
\* keyword raises TypeError and no node is built; one that takes it lets
\* the constructor go on, and the only child is the CV over node.
CVBestSearchRefit_init(nodes, arg_max) ==
    {[res |-> "TypeError", node |-> BsNoNode],
     [res |-> "ok",
      node |-> [arg_max |-> arg_max,
                tree |-> Methods_init("Methods", nodes).tree,
                children |-> <<[cls |-> "CV", store |-> 0, built_in |-> 0,
                                estimators |-> <<>>]>>,
                dict |-> EmptyMap]]}

\* np.where(mean_cv == mean_cv_opt)[0][-1]: the last position of the optimum.
BsFirstIndex_last(mean_cv, mean_cv_opt) ==
    CHOOSE i \in DOMAIN mean_cv :
        /\ mean_cv[i] = mean_cv_opt
        /\ \A j \in DOMAIN mean_cv : mean_cv[j] = mean_cv_opt => j <= i

\* np.where(mean_cv == mean_cv_opt)[0][0]
BsFirstIndex(mean_cv, mean_cv_opt) ==
    CHOOSE i \in DOMAIN mean_cv :
        /\ mean_cv[i] = mean_cv_opt
        /\ \A j \in DOMAIN mean_cv : mean_cv[j] = mean_cv_opt => i <= j

\* np.max(mean_cv) if arg_max else np.min(mean_cv)
BsOpt(mean_cv, arg_max) ==
    CHOOSE v \in {mean_cv[i] : i \in DOMAIN mean_cv} :
        \A i \in DOMAIN mean_cv : IF arg_max THEN mean_cv[i] <= v ELSE v <= mean_cv[i]

\* The dict comprehension of lines 210-211: for each signature of best_key
\* the last node walked that has this signature.
BsNodesDict(tree, best_key) ==
    LET nodes == walk_true_nodes(tree)
        sigs == {best_key[i] : i \in DOMAIN best_key}
        has(sig) == {i \in DOMAIN nodes : get_signature(NodeAt(tree, nodes[i])) = sig}
    IN  [sig \in {g \in sigs : has(g) # {}} |->
            nodes[CHOOSE i \in has(sig) : \A j \in has(sig) : j <= i]]

\* Every entry of a store's dict under the keys given, each with the result
\* of the fit numbered fit_nb.
BsSaveAll(store, keys, fit_nb) ==
    [store EXCEPT !.dict =
        [k \in (DOMAIN store.dict) \cup keys |->
            IF k \in keys THEN [fit |-> fit_nb] ELSE store.dict[k]]]

\* fit without line 214: the children of the earlier fits are kept.
CVBestSearchRefit_fit_append(node, stores, mean_score, result_order, fit_nb) ==
    LET branches == BsBranches(node.tree)
        keys == {BsBranchKey(node.tree, branches[b]) : b \in DOMAIN branches}
        cv_store == Len(stores) + 1
        key_val == [j \in DOMAIN result_order |->
                       [key |-> BsBranchKey(node.tree, branches[result_order[j]]),
                        val |-> mean_score[result_order[j]]]]
        mean_cv == [j \in DOMAIN key_val |-> key_val[j].val]
        idx_best == BsFirstIndex(mean_cv, BsOpt(mean_cv, node.arg_max))
        best_key == key_val[idx_best].key
        nodes_dict == BsNodesDict(node.tree, best_key)
        refited == [cls |-> "Pipe", store |-> cv_store + 1, built_in |-> fit_nb,
                    estimators |-> [k \in DOMAIN best_key |->
                                       BsEstimator(node.tree, nodes_dict[best_key[k]])]]
    IN  [node |-> [node EXCEPT
                      !.children = Append([@ EXCEPT ![1].store = cv_store], refited),
                      !.dict = StoreMem_save(@, "result_set", [fit |-> fit_nb], FALSE).dict],
         stores |-> stores \o <<BsSaveAll(BsStoreMem(fit_nb), keys, fit_nb),
                                BsSaveAll(BsStoreMem(fit_nb), {best_key}, fit_nb)>>,
         idx_best |-> idx_best,
         best_key |-> best_key]

\* CVBestSearchRefit.fit, given the mean score the search gives each branch
\* and the order in which the reduced result set lists the branches.
CVBestSearchRefit_fit(node, stores, mean_score, result_order, fit_nb) ==
    LET branches == BsBranches(node.tree)
        keys == {BsBranchKey(node.tree, branches[b]) : b \in DOMAIN branches}
        cv_store == Len(stores) + 1
        key_val == [j \in DOMAIN result_order |->
                       [key |-> BsBranchKey(node.tree, branches[result_order[j]]),
                        val |-> mean_score[result_order[j]]]]
        mean_cv == [j \in DOMAIN key_val |-> key_val[j].val]
        idx_best == BsFirstIndex(mean_cv, BsOpt(mean_cv, node.arg_max))
        best_key == key_val[idx_best].key
        nodes_dict == BsNodesDict(node.tree, best_key)
        refited == [cls |-> "Pipe", store |-> cv_store + 1, built_in |-> fit_nb,
                    estimators |-> [k \in DOMAIN best_key |->
                                       BsEstimator(node.tree, nodes_dict[best_key[k]])]]
    IN  [node |-> [node EXCEPT
                      !.children = Append(SubSeq([@ EXCEPT ![1].store = cv_store], 1, 1),
                                          refited),
                      !.dict = StoreMem_save(@, "result_set", [fit |-> fit_nb], FALSE).dict],
         stores |-> stores \o <<BsSaveAll(BsStoreMem(fit_nb), keys, fit_nb),
                                BsSaveAll(BsStoreMem(fit_nb), {best_key}, fit_nb)>>,
         idx_best |-> idx_best,
         best_key |-> best_key]

\* CVBestSearchRefit.fit left by an exception.  Raised in cv.fit_predict
\* (line 200), the CV has its new store and nothing else is changed; raised
\* in refited.fit (line 216), the children are already the CV and the new
\* pipeline, and the result set of the node is not saved.
CVBestSearchRefit_fit_raises(node, stores, mean_score, result_order, fit_nb, at) ==
    IF at = "cv"
    THEN [node |-> [node EXCEPT !.children[1].store = Len(stores) + 1],
          stores |-> Append(stores, BsStoreMem(fit_nb)),
          idx_best |-> 0,
          best_key |-> <<>>]
    ELSE LET r == CVBestSearchRefit_fit(node, stores, mean_score, result_order, fit_nb)
         IN  [r EXCEPT !.node.dict = node.dict,
                       !.stores[Len(stores) + 2] = BsStoreMem(fit_nb)]

\* The key under which the leaf of the pipeline refited saves its result:
\* the signatures of its estimators.
BsPipeKey(tree, refited) ==
    [k \in DOMAIN refited.estimators |->
        LET key == get_key(tree, refited.estimators[k].path) IN key[Len(key)]]

\* CVBestSearchRefit.predict: the second child is called with the flow, each
\* of its estimators in turn, and its leaf saves the prediction in its
\* store; the result set saved by the last fit is loaded and updated in
\* place with the prediction.  calls are the estimators called, built_in
\* the fit that built the pipeline the prediction is from.
CVBestSearchRefit_predict(node, stores) ==
    IF Len(node.children) < 2
    THEN [res |-> "IndexError", node |-> node, stores |-> stores,
          calls |-> <<>>, built_in |-> 0]
    ELSE LET refited == node.children[2]
             saved == [stores EXCEPT ![refited.store] =
                          BsSaveAll(@, {BsPipeKey(node.tree, refited)}, refited.built_in)]
         IN  IF "result_set" \notin DOMAIN node.dict
             THEN [res |-> "AttributeError", node |-> node, stores |-> saved,
                   calls |-> refited.estimators, built_in |-> 0]
             ELSE [res |-> "ok",
                   node |-> [node EXCEPT !.dict["result_set"] =
                                [fit |-> @.fit, pred |-> refited.built_in]],
                   stores |-> saved,
                   calls |-> refited.estimators,
                   built_in |-> refited.built_in]

\* No call of predict yet.
BsNoPred == [res |-> "", calls |-> <<>>, built_in |-> 0, before |-> BsNoNode]

\* nb counts the calls of fit, fit_res is how the last one ended, done is
\* the number of the last call that returned and refit_nb the number of the
\* last call that built a refit pipeline.
BsNoRet == [nb |-> 0, mean_score |-> <<>>, result_order |-> <<>>, idx_best |-> 0,
            best_key |-> <<>>, fit_res |-> "", done |-> 0, refit_nb |-> 0,
            pred |-> BsNoPred]

BsIdle ==
    /\ bs_pc = "idle"
    /\ bs_node = BsNoNode
    /\ bs_stores = <<>>
    /\ bs_ret = BsNoRet

\* CVBestSearchRefit(Methods(*nodes), arg_max=arg_max) has been called: the
\* node is built, or the constructor raised and there is no node to call.
BsInit ==
    /\ \E nodes \in BsNodeLists, arg_max \in BOOLEAN :
          \E r \in CVBestSearchRefit_init(nodes, arg_max) :
             /\ bs_pc = IF r.res = "ok" THEN "run" ELSE r.res
             /\ bs_node = r.node
    /\ bs_stores = <<>>
    /\ bs_ret = BsNoRet

\* The order in which the reduced result set of the CV lists its n branches:
\* the reduction concatenates the result sets of the children in child
\* order, so the results are in branch order.
BsOrders(n) == {[i \in 1..n |-> i]}

\* node.fit(**Xy)
BsFit(mean_score, result_order) ==
    /\ bs_pc = "run"
    /\ bs_ret.nb < MaxFits
    /\ LET r == CVBestSearchRefit_fit(bs_node, bs_stores, mean_score, result_order,
                                      bs_ret.nb + 1) IN
         /\ bs_node' = r.node
         /\ bs_stores' = r.stores
         /\ bs_ret' = [bs_ret EXCEPT !.nb = @ + 1, !.mean_score = mean_score,
                                     !.result_order = result_order,
                                     !.idx_best = r.idx_best, !.best_key = r.best_key,
                                     !.fit_res = "ok", !.done = bs_ret.nb + 1,
                                     !.refit_nb = bs_ret.nb + 1]
    /\ UNCHANGED bs_pc

\* node.fit(**Xy) in which a call of an estimator raises: in the search
\* (at = "cv") or in the fit of the refit pipeline (at = "refit").
BsFitRaises(at, mean_score, result_order) ==
    /\ bs_pc = "run"
    /\ bs_ret.nb < MaxFits
    /\ LET r == CVBestSearchRefit_fit_raises(bs_node, bs_stores, mean_score,
                                             result_order, bs_ret.nb + 1, at) IN
         /\ bs_node' = r.node
         /\ bs_stores' = r.stores
         /\ bs_ret' = IF at = "cv"
                      THEN [bs_ret EXCEPT !.nb = @ + 1, !.fit_res = "raised"]
                      ELSE [bs_ret EXCEPT !.nb = @ + 1, !.mean_score = mean_score,
                                          !.result_order = result_order,
                                          !.idx_best = r.idx_best,
                                          !.best_key = r.best_key,
                                          !.fit_res = "raised",
                                          !.refit_nb = bs_ret.nb + 1]
    /\ UNCHANGED bs_pc

\* node.predict(**Xy); a run ends with it.
BsPredict ==
    /\ bs_pc = "run"
    /\ bs_pc' = "predicted"
    /\ LET r == CVBestSearchRefit_predict(bs_node, bs_stores) IN
         /\ bs_node' = r.node
         /\ bs_stores' = r.stores
         /\ bs_ret' = [bs_ret EXCEPT !.pred = [res |-> r.res, calls |-> r.calls,
                                               built_in |-> r.built_in,
                                               before |-> bs_node]]

(***************************************************************************)
(* Two processes saving in one StoreFs (epac/stores.py, StoreFs.save).     *)
(* The steps of a save are its system calls: the test that the directory   *)
(* of the key exists, os.makedirs when it did not, the writing of the      *)
(* file.  The steps of the two processes interleave.                       *)
(***************************************************************************)
CwWorkers == {1, 2}

CwNoCall == [w \in CwWorkers |-> FsNoCall]

CwIdle ==
    /\ cw_pc = [w \in CwWorkers |-> "idle"]
    /\ cw_call = CwNoCall
    /\ cw_files = EmptyMap
    /\ cw_dirs = {}

\* Each worker is about to call save on its key of a new store root; the
\* keys of the two workers differ.
CwInit ==
    /\ cw_pc = [w \in CwWorkers |-> "exists"]
    /\ cw_call \in {c \in [CwWorkers -> [key : FsKeys, obj : FsObjs, protocol : FsProtocols]] :
                       c[1].key # c[2].key}
    /\ cw_files = EmptyMap
    /\ cw_dirs = {}

\* Line 318: os.path.exists(os.path.dirname(path))
CwExists(w) ==
    /\ cw_pc[w] = "exists"
    /\ cw_pc' = [cw_pc EXCEPT ![w] = IF Dirname(cw_call[w].key) \in cw_dirs
                                     THEN "write" ELSE "makedirs"]
    /\ UNCHANGED <<cw_call, cw_files, cw_dirs>>

\* Line 319: os.makedirs raises OSError when the directory exists.
CwMakedirs(w) ==
    /\ cw_pc[w] = "makedirs"
    /\ IF Dirname(cw_call[w].key) \in cw_dirs
       THEN /\ cw_pc' = [cw_pc EXCEPT ![w] = "OSError"]
            /\ UNCHANGED cw_dirs
       ELSE /\ cw_pc' = [cw_pc EXCEPT ![w] = "write"]
            /\ cw_dirs' = cw_dirs \cup {Dirname(cw_call[w].key)}
    /\ UNCHANGED <<cw_call, cw_files>>

\* Lines 322-329: the files of the key are written.
CwWrite(w) ==
    /\ cw_pc[w] = "write"
    /\ cw_files' = StoreFs_save(cw_files, cw_dirs, cw_call[w].key, cw_call[w].obj,
                                cw_call[w].protocol).files
    /\ cw_pc' = [cw_pc EXCEPT ![w] = "done"]
    /\ UNCHANGED <<cw_call, cw_dirs>>

(***************************************************************************)
(* The specifications, one per component.                                  *)
(***************************************************************************)
\* StoreMem alone: the file-system store is not used.
InitMem == MemInit /\ FsInit /\ XvIdle /\ MtIdle /\ SlIdle /\ EsIdle /\ BsIdle /\ CwIdle

NextMem ==
    \/ \E key \in MemKeys, obj \in MemObjs, merge \in BOOLEAN :
          MemSave(key, obj, merge) /\ UNCHANGED not_mem_vars
    \/ \E key \in MemKeys : MemLoad(key) /\ UNCHANGED not_mem_vars

SpecMem == InitMem /\ [][NextMem]_vars

\* StoreFs alone: the in-memory store is not used.
InitFs == FsInit /\ MemInit /\ XvIdle /\ MtIdle /\ SlIdle /\ EsIdle /\ BsIdle /\ CwIdle

NextFs ==
    \/ \E key \in FsKeys, obj \in FsObjs, protocol \in FsProtocols :
          FsSave(key, obj, protocol) /\ UNCHANGED not_fs_vars
    \/ \E key \in FsKeys \cup FsPrefixes : FsLoad(key) /\ UNCHANGED not_fs_vars

SpecFs == InitFs /\ [][NextFs]_vars

\* epac_joblib alone.
InitXv == XvInit /\ MemInit /\ FsInit /\ MtIdle /\ SlIdle /\ EsIdle /\ BsIdle /\ CwIdle

NextXv ==
    \/ XvDump /\ UNCHANGED not_xv_vars
    \/ XvLoad /\ UNCHANGED not_xv_vars

SpecXv == InitXv /\ [][NextXv]_vars

\* Methods and Grid alone.
InitMt == MtInit /\ MemInit /\ FsInit /\ XvIdle /\ SlIdle /\ EsIdle /\ BsIdle /\ CwIdle

NextMt ==
    \/ MtMethods /\ UNCHANGED not_mt_vars
    \/ MtGrid /\ UNCHANGED not_mt_vars

SpecMt == InitMt /\ [][NextMt]_vars

\* CV and Perms with their virtual list of children.
InitCv == CvInit /\ MemInit /\ FsInit /\ XvIdle /\ MtIdle /\ EsIdle /\ BsIdle /\ CwIdle

NextCv ==
    \/ \E i \in 0..MaxFolds : CvGetItem(i) /\ UNCHANGED not_sl_vars
    \/ \E y \in SlLabels : CvTransform(y) /\ UNCHANGED not_sl_vars
    \/ \E n \in 1..MaxRows : PermsTransform(n) /\ UNCHANGED not_sl_vars
    \/ CvTransformNoY /\ UNCHANGED not_sl_vars
    \/ \E slicer \in SlAppended : CvAppend(slicer) /\ UNCHANGED not_sl_vars
    \/ CvIter /\ UNCHANGED not_sl_vars
    \/ CvIterNext /\ UNCHANGED not_sl_vars

SpecCv == InitCv /\ [][NextCv]_vars

\* A RowSlicer alone.
InitSl == SlInit /\ MemInit /\ FsInit /\ XvIdle /\ MtIdle /\ EsIdle /\ BsIdle /\ CwIdle

NextSl ==
    \/ \E recursion \in BOOLEAN, sample_set \in {"", SUFFIX_TRAIN, SUFFIX_TEST},
           flow \in SlFlows :
          \E keys_order \in SlOrders(flow) :
             SlTransform(recursion, sample_set, flow, keys_order) /\ UNCHANGED not_sl_vars
    \/ \E recursion \in BOOLEAN, flow \in SlFlows :
          \E keys_order \in SlOrders(flow) :
             SlFit(recursion, flow, keys_order) /\ UNCHANGED not_sl_vars
    \/ \E recursion \in BOOLEAN, flow \in SlFlows :
          \E keys_order \in SlOrders(flow) :
             SlPredict(recursion, flow, keys_order) /\ UNCHANGED not_sl_vars

SpecSl == InitSl /\ [][NextSl]_vars

\* An estimator wrapper alone.
InitEs == EsInit /\ MemInit /\ FsInit /\ XvIdle /\ MtIdle /\ SlIdle /\ BsIdle /\ CwIdle

NextEs ==
    \/ \E Xy \in EsFlows : EsLeafTransform(Xy) /\ UNCHANGED not_es_vars
    \/ \E Xy \in EsFlows : EsInternalTransform(Xy) /\ UNCHANGED not_es_vars

SpecEs == InitEs /\ [][NextEs]_vars

\* A best search then refit node alone.
InitBs == BsInit /\ MemInit /\ FsInit /\ XvIdle /\ MtIdle /\ SlIdle /\ EsIdle /\ CwIdle

NextBs ==
    \/ \E n \in 1..3 : \E mean_score \in [1..n -> BsScores] : \E result_order \in BsOrders(n) :
          /\ n = Len(BsBranches(bs_node.tree))
          /\ BsFit(mean_score, result_order)
          /\ UNCHANGED not_bs_vars
    \/ \E n \in 1..3 : \E mean_score \in [1..n -> BsScores] : \E result_order \in BsOrders(n) :
          /\ n = Len(BsBranches(bs_node.tree))
          /\ \E at \in {"cv", "refit"} : BsFitRaises(at, mean_score, result_order)
          /\ UNCHANGED not_bs_vars
    \/ BsPredict /\ UNCHANGED not_bs_vars

SpecBs == InitBs /\ [][NextBs]_vars

\* Two concurrent writers alone.
InitCw == CwInit /\ MemInit /\ FsInit /\ XvIdle /\ MtIdle /\ SlIdle /\ EsIdle /\ BsIdle

NextCw ==
    \/ \E w \in CwWorkers : CwExists(w) /\ UNCHANGED not_cw_vars
    \/ \E w \in CwWorkers : CwMakedirs(w) /\ UNCHANGED not_cw_vars
    \/ \E w \in CwWorkers : CwWrite(w) /\ UNCHANGED not_cw_vars

SpecCw == InitCw /\ [][NextCw]_vars

Spec == SpecMem

(***************************************************************************)
(* StoreMem: properties.                                                   *)
(***************************************************************************)
MemLast == mem_log[Len(mem_log)]

\* The last call was save(k, M, merge=True) on a key that held a mapping,
\* with M a mapping.
MemMergedIntoMap ==
    /\ mem_log # <<>>
    /\ MemLast.merge
    /\ MemLast.key \in DOMAIN mem_prev
    /\ IsMap(mem_prev[MemLast.key])
    /\ IsMap(MemLast.obj)

\* The sub-keys that the stored mapping and the saved mapping both hold.
MemSharedSubKeys ==
    (DOMAIN mem_prev[MemLast.key].m) \cap (DOMAIN MemLast.obj.m)

\* C1: a save with merge=True of a mapping that holds, under a sub-key of the
\* stored mapping, a different leaf value fails with a merge-conflict error and
\* leaves the stored value as it was.
C1_ConflictIsFatal ==
    (/\ MemMergedIntoMap
     /\ \E s \in MemSharedSubKeys :
           /\ mem_prev[MemLast.key].m[s] # MemLast.obj.m[s]
           /\ ~(IsMap(mem_prev[MemLast.key].m[s]) /\ IsMap(MemLast.obj.m[s])))
    => /\ MemLast.res = "MergeConflictError"
       /\ mem_dict[MemLast.key] = mem_prev[MemLast.key]

\* The mappings saved under key k so far, in call order.
MemSavedTo(k) == SelectSeq(mem_log, LAMBDA c : c.key = k)

\* Every call in calls is a save with merge=True of a mapping, and no two of
\* the mappings have a sub-key in common.
MemDisjointMerges(calls) ==
    /\ \A i \in DOMAIN calls : calls[i].merge /\ IsMap(calls[i].obj)
    /\ \A i, j \in DOMAIN calls :
          i # j => (DOMAIN calls[i].obj.m) \cap (DOMAIN calls[j].obj.m) = {}

\* The union of a set of mappings with pairwise disjoint sub-keys.
MemUnion(maps) ==
    [s \in UNION {DOMAIN f : f \in maps} |-> (CHOOSE f \in maps : s \in DOMAIN f)[s]]

\* C2: after saves with merge=True of mappings with pairwise disjoint sub-keys,
\* load returns the union of the mappings; the union is taken over the set of
\* mappings saved, so it is the same for every order of the saves.
C2_DisjointMergeIsUnion ==
    \A k \in MemKeys :
        LET calls == MemSavedTo(k) IN
        (calls # <<>> /\ MemDisjointMerges(calls))
        => StoreMem_load(mem_dict, k) =
              MapV(MemUnion({calls[i].obj.m : i \in DOMAIN calls}))

\* Two non-empty mappings with different sub-keys were merged under k1 and
\* load(k1) returned a mapping with both sub-keys.
C2_Witness ==
    LET calls == MemSavedTo("k1") IN
    /\ Len(calls) = 2
    /\ MemDisjointMerges(calls)
    /\ \A i \in DOMAIN calls : calls[i].obj.m # EmptyMap
    /\ mem_ret.done /\ mem_ret.key = "k1"
    /\ DOMAIN mem_ret.val.m = SubKeys

\* C6: a save with merge=True deep-merges: where the stored mapping and the
\* saved mapping both hold a mapping under a sub-key, the entries that only the
\* stored nested mapping has are kept.
C6_MergeIsDeep ==
    MemMergedIntoMap =>
        \A s \in MemSharedSubKeys :
            LET old == mem_prev[MemLast.key].m[s]
                new == MemLast.obj.m[s]
                now == mem_dict[MemLast.key].m[s]
            IN  (IsMap(old) /\ IsMap(new)) =>
                   /\ IsMap(now)
                   /\ \A z \in (DOMAIN old.m) \ (DOMAIN new.m) :
                         z \in DOMAIN now.m /\ now.m[z] = old.m[z]

\* obj can be read back from the value v: as v itself, as entries of the
\* mapping v, or as an element of the sequence v.
MemRetrievable(obj, v) ==
    \/ v = obj
    \/ IsMap(v) /\ IsMap(obj)
          /\ \A s \in DOMAIN obj.m : s \in DOMAIN v.m /\ v.m[s] = obj.m[s]
    \/ IsList(v) /\ \E i \in DOMAIN v.l : v.l[i] = obj

\* C28: when save(key, obj, merge=True) returns without error, obj can be
\* read back through load(key), whatever was stored at key before.
C28_MergeNeverDiscards ==
    (mem_log # <<>> /\ MemLast.merge /\ MemLast.res = "ok") =>
        MemRetrievable(MemLast.obj, StoreMem_load(mem_dict, MemLast.key))

(***************************************************************************)
(* StoreFs: properties.                                                    *)
(***************************************************************************)
\* StoreMem: when the last save under k had merge=False, load(k) returns the
\* object of that save.
C3_MemPart ==
    \A k \in MemKeys :
        LET calls == MemSavedTo(k) IN
        (calls # <<>> /\ ~calls[Len(calls)].merge)
        => StoreMem_load(mem_dict, k) = calls[Len(calls)].obj

\* StoreFs: a load of the key of the last save returns the object of that save.
C3_FsPart ==
    (fs_ret.done /\ fs_ret.key = fs_last.key)
    => (fs_ret.res = "ok" /\ fs_ret.val = fs_last.obj)

\* C3: after saves with merge=False to one key, in either store and with any
\* mix of the "txt" and "bin" protocols, load returns the object of the last
\* save and nothing saved earlier.
C3_LoadReturnsLastSave == C3_MemPart /\ C3_FsPart

\* C4: StoreFs.save with protocol "txt" of an object that json encodes, followed
\* by load of the same key, returns an object equal to the one saved.
C4_TxtRoundTrip ==
    (/\ fs_ret.done
     /\ fs_ret.key = fs_last.key
     /\ fs_last.protocol = "txt"
     /\ ~JsonRaises(obj_to_dict(fs_last.obj)))
    => (fs_ret.res = "ok" /\ fs_ret.val = fs_last.obj)

\* The keys with a file below the prefix p.
FsEntriesUnder(p) ==
    {k \in {f.key : f \in DOMAIN fs_files} :
        Len(k) > Len(p) /\ SubSeq(k, 1, Len(p)) = p}

\* The key k relative to the prefix p.
FsRelKey(k, p) == SubSeq(k, Len(p) + 1, Len(k))

\* C5: load of a non-root prefix that is a directory returns a mapping with
\* exactly the entries saved below the prefix, each under its key relative to
\* the prefix.
C5_PrefixLoadIsScoped ==
    (fs_ret.done /\ fs_ret.key \in FsPrefixes /\ fs_ret.key \in fs_dirs)
    => /\ fs_ret.res = "ok"
       /\ IsMap(fs_ret.val)
       /\ DOMAIN fs_ret.val.m =
             {FsRelKey(k, fs_ret.key) : k \in FsEntriesUnder(fs_ret.key)}

(***************************************************************************)
(* epac_joblib: properties.                                                *)
(***************************************************************************)
\* C7: extract_values followed by replace_values is a round trip: what load
\* returns for a dumped object is the object as it was built, every large
\* value back in its place and no TagObject left, be the large value an
\* attribute or the object itself.
C7_ExtractReplaceRoundTrip ==
    (xv_pc \in {"loaded", "load_failed"})
    => (xv_pc = "loaded" /\ xv_out = xv_orig)

(***************************************************************************)
(* Methods and Grid: properties.                                           *)
(***************************************************************************)
\* C25: after epac_joblib.dump has returned, the object the caller passed
\* is as it was before the call: no attribute holds a placeholder.
C25_DumpLeavesObjectUnchanged ==
    (xv_pc \in {"dumped", "loaded", "load_failed"}) => xv_obj = xv_orig

MtDone == mt_pc \in {"built", "failed"}

\* C8: when two of the nodes given to Methods or Grid have the same class
\* and the same parameters, the constructor raises ValueError.
C8_IdenticalNodesRaise ==
    (/\ MtDone
     /\ \E i, j \in DOMAIN mt_nodes :
            /\ i < j
            /\ mt_nodes[i].node.cls = mt_nodes[j].node.cls
            /\ mt_nodes[i].node.params = mt_nodes[j].node.params)
    => mt_pc = "failed"

\* C9: in a tree that Methods or Grid built, no two nodes, internal or leaf,
\* have the same key.
C9_KeysUnique ==
    (mt_pc = "built")
    => LET all == walk_nodes(mt_tree, <<>>) IN
       ~HasDuplicates([i \in DOMAIN all |-> get_key(mt_tree, all[i])])

\* The key the node at path has while it carries no signature arguments.
MtBareKey(tree, path) ==
    [get_key(tree, path) EXCEPT ![Len(path) + 1].args = EmptyMap]

\* The nodes of the level of path that have its key before resolution.
MtGroup(tree, path) ==
    LET all == walk_nodes(tree, <<>>) IN
    {all[i] : i \in {j \in DOMAIN all : /\ Len(all[j]) = Len(path)
                                        /\ MtBareKey(tree, all[j]) = MtBareKey(tree, path)}}

\* C10: in a tree that Methods or Grid built, a node below the root that
\* shares its key with other nodes of its level carries as signature
\* arguments exactly its parameters restricted to the names that differ in
\* that group, and a node that shares its key with none carries none.
C10_MinimalSignatureArgs ==
    (mt_pc = "built")
    => LET all == walk_nodes(mt_tree, <<>>) IN
       \A i \in DOMAIN all :
           all[i] # <<>> =>
               LET node == NodeAt(mt_tree, all[i])
                   group == MtGroup(mt_tree, all[i])
                   diff == dict_diff({get_parameters(NodeAt(mt_tree, q)) : q \in group})
               IN  node.signature_args =
                       IF Cardinality(group) > 1
                       THEN _sub_dict(get_parameters(node), diff)
                       ELSE EmptyMap

\* The keys of the leaves of a tree.
MtLeafKeys(tree) ==
    LET leaves == walk_leaves(tree, <<>>) IN
    [i \in DOMAIN leaves |-> get_key(tree, leaves[i])]

\* The depth of the deepest node among the nodes given.
MtHeight ==
    LET depth(node) == IF node.children = <<>> THEN 1 ELSE 2
        S == {depth(mt_nodes[i].node) : i \in DOMAIN mt_nodes}
    IN  CHOOSE d \in S : \A e \in S : e <= d

\* C24: construction ends; the body of the loop ran at most once per level
\* of the given trees, the k-th time on nodes of depth k only; the tree built
\* has pairwise distinct leaf keys, and the error is raised only when no
\* candidate node was left.
C24_LoopDescendsAndEnds ==
    MtDone =>
        LET r == Methods_init("Methods", mt_nodes) IN
        /\ mt_iters = r.iters
        /\ mt_iters <= MtHeight
        /\ Len(r.levels) = r.iters
        /\ \A k \in DOMAIN r.levels : r.levels[k] = {k}
        /\ mt_pc = "built" => ~HasDuplicates(MtLeafKeys(mt_tree))
        /\ mt_pc = "failed" => r.res = "ValueError" /\ r.left = <<>>

C24_Witness ==
    /\ mt_pc = "built"
    /\ mt_iters = 2
    /\ Len(mt_nodes) = MaxNodes

(***************************************************************************)
(* CV, Perms and RowSlicer: properties.                                    *)
(***************************************************************************)
\* C11: a CV or Perms node keeps the number of children it was built with;
\* children[i] for i below that number is the one Slicer with its ordinal
\* set to i, and for i not below it IndexError is raised and the Slicer is
\* as it was.
C11_VirtualChildren ==
    (sl_pc = "run") =>
        /\ SlicerVirtualList_len(sl_cv) = sl_cv.n_folds
        /\ sl_ret.op = "getitem" =>
              IF sl_ret.arg < sl_cv.n_folds
              THEN sl_ret.res = "ok" /\ sl_slicer.nb = sl_ret.arg
              ELSE sl_ret.res = "IndexError" /\ sl_slicer = sl_ret.before

C11_Witness ==
    /\ sl_ret.op = "getitem"
    /\ sl_ret.res = "ok"
    /\ sl_ret.arg > 0
    /\ sl_cv.has_sclices
    /\ sl_slicer.nb = sl_ret.arg
    /\ sl_slicer # sl_ret.before

\* The test rows of the children of the node, by position.
CvTestSets ==
    [i \in 0..(sl_cv.size - 1) |->
        Range(move_to_child(sl_cv, i, sl_slicer).slices.test)]

\* C12: once the plan of a CV node is set on n rows, the test rows of its
\* children are pairwise disjoint and together they are the rows 0..n-1.
C12_FoldsPartitionRows ==
    (sl_pc = "run" /\ sl_cv.cls = "CV" /\ sl_cv.has_sclices) =>
        LET n == Len(sl_cv._sclices[1].train) + Len(sl_cv._sclices[1].test) IN
        /\ \A i, j \in DOMAIN CvTestSets : i # j => CvTestSets[i] \cap CvTestSets[j] = {}
        /\ UNION {CvTestSets[i] : i \in DOMAIN CvTestSets} = 0..(n - 1)

\* The Slicer that position i of the node gives under its plan, from the
\* node alone.
CvChild(i) ==
    LET plan == sl_cv._sclices
        slices == plan[IF i < Len(plan) THEN i + 1 ELSE Len(plan)]
    IN  [signature_name |-> IF sl_cv.cls = "CV" THEN "CV" ELSE "Perm",
         nb |-> i,
         slices |-> slices,
         n |-> IF slices.t = "dict" THEN Len(slices.train) + Len(slices.test)
               ELSE Len(slices.list),
         apply_on |-> IF sl_cv.cls = "CV" THEN SlApplyNone ELSE SlApplyStr("y")]

CvIndexed == sl_ret.op \in {"getitem", "iter"} /\ sl_ret.res = "ok"

\* The ordinal and the slice state of a Slicer.
CvSliceState(slicer) == [nb |-> slicer.nb, slices |-> slicer.slices, n |-> slicer.n]

\* C22: once the plan is set, the Slicer returned for position i has the
\* ordinal i and the slices of position i of the plan, whatever positions
\* were indexed before and whichever Slicer the list holds.
C22_ChildDependsOnIndexAndPlan ==
    (sl_pc = "run" /\ CvIndexed /\ sl_cv.has_sclices)
        => CvSliceState(sl_slicer) = CvSliceState(CvChild(sl_ret.arg))

C22_Witness ==
    /\ CvIndexed
    /\ sl_cv.has_sclices
    /\ sl_ret.before.slices # SlNone
    /\ sl_ret.before.nb > sl_ret.arg
    /\ sl_ret.before.slices # sl_slicer.slices
    /\ CvSliceState(sl_slicer) = CvSliceState(CvChild(sl_ret.arg))

\* C23: in one pass over the children of a node, the slices of a Slicer that
\* were set at an earlier step of the pass are not assigned again.
C23_SlicesAssignedOnce ==
    (sl_pc = "run" /\ sl_ret.op = "iter" /\ sl_ret.arg > 0 /\ sl_ret.before.slices # SlNone)
        => sl_slicer.slices = sl_ret.before.slices

\* The plan of a CV of the given type and number of folds for the labels y.
CvPlanFor(cv_type, n_folds, y) ==
    CASE cv_type = "stratified" -> StratifiedKFold(y, n_folds)
      [] cv_type = "random" -> KFold(Len(y), n_folds)
      [] cv_type = "loo" -> LeaveOneOut(Len(y))
      [] OTHER -> <<>>

\* C27: after a CV.transform or CV.fit without recursion that returned on a
\* flow with y, the node has the plan computed from that y, and every child
\* indexed then has slices, those of the plan of that y.
C27_PlanFromLastCall ==
    (/\ sl_pc = "run"
     /\ sl_cv.cls = "CV"
     /\ sl_ret.op = "plan"
     /\ sl_ret.res = "ok"
     /\ "y" \in DOMAIN sl_ret.flow_in)
    => LET plan == CvPlanFor(sl_cv.cv_type, sl_cv.n_folds, sl_ret.flow_in["y"].rows) IN
       /\ sl_cv.has_sclices
       /\ sl_cv._sclices = plan
       /\ \A i \in 0..(sl_cv.size - 1) :
             LET child == SlicerVirtualList_getitem(sl_cv, sl_slicer, i).slicer IN
             /\ child.slices # SlNone
             /\ child.slices = plan[IF i < Len(plan) THEN i + 1 ELSE Len(plan)]

SlCalled == sl_pc = "called" /\ sl_ret.op \in {"fit", "predict", "transform"}

\* C13: fit, predict and transform of a RowSlicer whose slices were never
\* set raise the error of the slicing not initialized, with or without
\* recursion; the child is not called and no flow is returned.
C13_UninitializedSlicerRaises ==
    (SlCalled /\ sl_slicer.slices.t = "none") =>
        /\ sl_ret.res = "ValueError_not_initialized"
        /\ sl_ret.child_calls = 0
        /\ sl_ret.flow = SlNoFlow

C13_Witness ==
    /\ sl_ret.op = "fit"
    /\ sl_ret.recursion
    /\ sl_slicer.slices.t = "none"
    /\ DOMAIN sl_ret.flow_in = SlNames
    /\ sl_ret.res = "ValueError_not_initialized"

\* C14: transform without recursion and without sample_set, on a RowSlicer
\* whose slices are a dict of train and test, raises the error of the
\* missing sample_set whatever the flow.
C14_AmbiguousSampleSetRaises ==
    (/\ SlCalled
     /\ sl_ret.op = "transform"
     /\ ~sl_ret.recursion
     /\ sl_ret.sample_set = ""
     /\ sl_slicer.slices.t = "dict")
    => sl_ret.res = "ValueError_sample_set"

\* The rows of the slicer for sample_set.
SlIndices(slicer, sample_set) ==
    IF slicer.slices.t = "dict"
    THEN IF sample_set = SUFFIX_TRAIN THEN slicer.slices.train ELSE slicer.slices.test
    ELSE slicer.slices.list

\* The flow with every array of n rows cut to the selected rows.
SlExpected(slicer, sample_set, flow) ==
    [a \in DOMAIN flow |->
        IF SlMismatch(flow[a], slicer.n)
        THEN flow[a]
        ELSE SlArray([j \in DOMAIN SlIndices(slicer, sample_set) |->
                         flow[a].rows[SlIndices(slicer, sample_set)[j] + 1]])]

\* C15: with apply_on unset, transform without recursion returns the flow
\* with every array of the expected length cut to the selected rows and
\* every other entry as it was.
C15_OnlyMatchingEntriesSliced ==
    (/\ SlCalled
     /\ sl_ret.op = "transform"
     /\ ~sl_ret.recursion
     /\ sl_ret.before.apply_on = SlApplyNone
     /\ sl_slicer.slices.t = "dict"
     /\ sl_ret.sample_set # "")
    => /\ sl_ret.res = "ok"
       /\ sl_ret.flow = SlExpected(sl_slicer, sl_ret.sample_set, sl_ret.flow_in)

\* The same call of transform made again on the Slicer as the call left it.
SlAgain ==
    RowSlicer_transform(sl_slicer, sl_ret.recursion, sl_ret.sample_set,
                        sl_ret.flow_in, sl_ret.keys_order)

\* C26: a call of transform, whether it returns or raises, leaves apply_on,
\* slices and n of the Slicer as they were, and the same call made again
\* returns the same result.
C26_TransformKeepsConfiguration ==
    (SlCalled /\ sl_ret.op = "transform") =>
        /\ sl_slicer.apply_on = sl_ret.before.apply_on
        /\ sl_slicer.slices = sl_ret.before.slices
        /\ sl_slicer.n = sl_ret.before.n
        /\ SlAgain.res = sl_ret.res
        /\ SlAgain.flow = sl_ret.flow

(***************************************************************************)
(* Estimator wrappers: properties.                                         *)
(***************************************************************************)
\* The calls the estimator received in the last transform of the node.
EsLastCalls == SubSeq(es_est.calls, es_ret.calls_before + 1, Len(es_est.calls))

EsMergedCall == es_ret.nb > 0 /\ KW_SPLIT_TRAIN_TEST \in DOMAIN es_ret.flow_in

\* C16: on a merged flow the estimator is fitted once, on the train entries
\* and first; its output method is then called once on the train entries and
\* once on the test entries, and the flow returned has every output name
\* with the train suffix and with the test suffix, each with the value
\* computed from the entries of that role by the fitted estimator.
C16_FitOnTrainThenBothRoles ==
    EsMergedCall =>
        LET s == train_test_split(es_ret.flow_in)
            fit_args == EsArgs(s.train, es_node.in_args_fit)
            in_tr == EsArgs(s.train, es_node.in_args_out)
            in_te == EsArgs(s.test, es_node.in_args_out)
        IN  /\ EsLastCalls = <<[method |-> "fit", args |-> fit_args],
                               [method |-> es_node.method, args |-> in_tr],
                               [method |-> es_node.method, args |-> in_te]>>
            /\ \A i \in DOMAIN es_node.out_args :
                  /\ EsKey(es_node.out_args[i], EsTrain) \in DOMAIN es_ret.flow
                  /\ EsKey(es_node.out_args[i], EsTest) \in DOMAIN es_ret.flow
                  /\ es_ret.flow[EsKey(es_node.out_args[i], EsTrain)]
                        = EsOut(es_node.method, fit_args, in_tr)
                  /\ es_ret.flow[EsKey(es_node.out_args[i], EsTest)]
                        = EsOut(es_node.method, fit_args, in_te)

C16_Witness ==
    /\ EsMergedCall
    /\ es_ret.calls_before > 0
    /\ es_node.cls = "LeafEstimator"
    /\ es_ret.flow_in[EsKey("X", EsTrain)] # es_ret.flow_in[EsKey("X", EsTest)]
    /\ es_ret.flow[EsKey("y", EsTrain)] # es_ret.flow[EsKey("y", EsTest)]

(***************************************************************************)
(* CVBestSearchRefit: properties.                                          *)
(***************************************************************************)
\* The last call of fit returned.
BsFitted == bs_ret.fit_res = "ok"

\* The branch chosen by the last fit.
BsWinner == bs_ret.result_order[bs_ret.idx_best]

BsBest(b) ==
    \A c \in DOMAIN bs_ret.mean_score :
        IF bs_node.arg_max THEN bs_ret.mean_score[c] <= bs_ret.mean_score[b]
        ELSE bs_ret.mean_score[b] <= bs_ret.mean_score[c]

\* C17: the branch chosen by fit has the greatest mean score (the least when
\* arg_max is false), and it is the branch of smallest index among those
\* that have it.
C17_BestIsSmallestIndex ==
    BsFitted =>
        /\ BsBest(BsWinner)
        /\ \A b \in DOMAIN bs_ret.mean_score : BsBest(b) => BsWinner <= b

\* A fit of three branches in which the optimum is reached by the second
\* and the third branch and not by the first.
C17_Witness ==
    /\ BsFitted
    /\ Len(bs_ret.mean_score) = 3
    /\ ~BsBest(1)
    /\ BsBest(2)
    /\ BsBest(3)
    /\ BsWinner = 2

\* The estimators of the nodes on the path of the branch b, in path order.
BsPathEstimators(b) ==
    LET path == BsBranches(bs_node.tree)[b] IN
    [i \in 1..Len(path) |-> BsEstimator(bs_node.tree, SubSeq(path, 1, i))]

\* C18: the refit pipeline is made of the estimators of the nodes on the
\* path of the chosen branch, in path order, and of no other estimator.
C18_RefitUsesWinningPath ==
    BsFitted => bs_node.children[2].estimators = BsPathEstimators(BsWinner)

\* The stores reachable from the node: those of its children.
BsReachableStores == {bs_node.children[i].store : i \in DOMAIN bs_node.children}

\* C19: after a fit the node has the CV and one refit pipeline, the one
\* built by that fit; the stores of both were created in that fit and differ;
\* every result in these stores and in the state saved by the node is of
\* that fit.
C19_OnlyLastFitReachable ==
    BsFitted =>
        /\ Len(bs_node.children) = 2
        /\ bs_node.children[1].cls = "CV"
        /\ bs_node.children[2].cls = "Pipe"
        /\ bs_node.children[2].built_in = bs_ret.nb
        /\ bs_node.children[1].store # bs_node.children[2].store
        /\ \A id \in BsReachableStores :
              /\ id \in DOMAIN bs_stores
              /\ bs_stores[id].created_in = bs_ret.nb
              /\ \A k \in DOMAIN bs_stores[id].dict : bs_stores[id].dict[k].fit = bs_ret.nb
        /\ \A k \in DOMAIN bs_node.dict : bs_node.dict[k].fit = bs_ret.nb

C19_Witness ==
    /\ BsFitted
    /\ bs_ret.nb = 2
    /\ Len(bs_stores) = 4
    /\ bs_stores[1].dict # EmptyMap
    /\ bs_node.children[2].store = 4
    /\ "result_set" \in DOMAIN bs_node.dict

(***************************************************************************)
(* Concurrent writers: properties.                                         *)
(***************************************************************************)
\* No save of the two has raised.
CwNoError == \A w \in CwWorkers : cw_pc[w] # "OSError"

\* C21: two saves on different keys of one store both end without error
\* whatever the interleaving, and once both have ended a load of each key
\* returns the object saved under it.
C21_ConcurrentSavesSucceed ==
    /\ CwNoError
    /\ (\A w \in CwWorkers : cw_pc[w] = "done") =>
          \A w \in CwWorkers :
              \A r \in StoreFs_load(cw_files, cw_dirs, cw_call[w].key) :
                  r.res = "ok" /\ r.val = cw_call[w].obj

(***************************************************************************)
(* CVBestSearchRefit.predict: properties.                                  *)
(***************************************************************************)
BsPredicted == bs_pc = "predicted"

\* C29: predict on a node on which no call of fit has returned ends with an
\* error, has called no estimator and has left the children and the saved
\* result of the node as they were; predict after a fit that returned is
\* the prediction of the pipeline built by the last fit, whose estimators
\* it called.
C29_PredictOnlyAfterFit ==
    BsPredicted =>
        IF bs_ret.done = 0
        THEN /\ bs_ret.pred.res \notin {"", "ok"}
             /\ bs_ret.pred.calls = <<>>
             /\ bs_node.children = bs_ret.pred.before.children
             /\ bs_node.dict = bs_ret.pred.before.dict
        ELSE /\ bs_ret.pred.res = "ok"
             /\ bs_ret.pred.built_in = bs_ret.refit_nb
             /\ bs_ret.pred.calls = bs_node.children[2].estimators
             /\ bs_node.children[2].built_in = bs_ret.refit_nb
====
